---- MODULE Spec2Model ----
(***************************************************************************)
(* OneDrive organizer gateway: the request executor                        *)
(* (OneDriveOrganizer._make_request and _authenticate), the operation      *)
(* translator and bulk iterator built on it, the dispatcher _handle and    *)
(* the REST transport POST /invoke/{tool}.                                 *)
(***************************************************************************)
EXTENDS Integers, Sequences, FiniteSets, TLC

(***************************************************************************)
(* Bounds of the exploration.                                              *)
(***************************************************************************)
\* largest max_retries argument explored for a direct _make_request call
MaxRetriesArg == 3
\* number of direct _make_request calls explored on one organizer
MaxCalls == 2

(***************************************************************************)
(* Program constants.                                                      *)
(***************************************************************************)
\* default of the max_retries parameter of _make_request
DefaultMaxRetries == 3

\* self.access_token = None
NoToken == 0

(***************************************************************************)
(* The remote API's responses, as far as _make_request reads them: the     *)
(* status code, the Retry-After header (a string, or absent) and the kind  *)
(* of body.                                                                *)
(*   body "empty": no content;  "item": a JSON object holding the fields   *)
(*   the caller reads;  "bare": a JSON object without them;  "text":       *)
(*   content that is not JSON;  "json_error": a JSON object with           *)
(*   error.message.                                                        *)
(***************************************************************************)
RetryAfterValues == {"0", "7", "Wed, 21 Oct 2015 07:28:00 GMT"}

Responses ==
    { [status |-> s, retry_after |-> "absent", body |-> b] :
          s \in {200, 201}, b \in {"empty", "item", "bare", "text"} }
    \cup { [status |-> 204, retry_after |-> "absent", body |-> "empty"] }
    \cup { [status |-> 429, retry_after |-> h, body |-> "text"] :
          h \in {"absent"} \cup RetryAfterValues }
    \cup { [status |-> s, retry_after |-> "absent", body |-> b] :
          s \in {202, 401, 404, 500, 503}, b \in {"json_error", "text"} }

\* credential.get_token either yields a token or raises
IdentityOutcomes == {"token", "rejected"}

\* Python's int() on a header value: the integer, or ValueError
PyIntRaises(s) == s \notin {"0", "7"}

PyInt(s) == CASE s = "0" -> 0 [] s = "7" -> 7 [] OTHER -> 0

Err(msg, status) == [msg |-> msg, status |-> status]

NoError == Err("", 0)

VARIABLES
    access_token,   \* organizer.access_token (NoToken: None)
    issued,         \* tokens the identity endpoint has issued so far
    call,           \* the frame of the _make_request call in progress
    log,            \* the requests of this call: bearer sent, status received
    sleeps,         \* the time.sleep durations of this call, in order
    reauths,        \* discards of the cached token in this call
    get_tokens,     \* credential.get_token invocations in this call
    ncalls,         \* direct _make_request calls started
    inv,            \* the tool invocation being served: entry point, tool, data
    hpc,            \* where _handle stands: idle, next, step, done
    plan,           \* the remote steps left in the operation in progress
    iter,           \* the batch: its items, the index reached, the results,
                    \* the search result of the rule in progress
    units,          \* the single-item operations started, with their outcome
    reply,          \* what _handle returned
    http,           \* the answer of POST /invoke/{tool}
    net,            \* whether a get_token / a remote request happened
    wire,           \* the requests of the operation in progress, in order
    target_folder_id, \* the local of move_file / copy_file
    cfg,            \* the JSON-RPC server's OAuth configuration
    mreq,           \* the request the JSON-RPC server is serving
    mpc,            \* idle, or done once the request is answered
    mresp,          \* the answer to that request
    monitor,        \* what the remote copy monitor reports
    threads,        \* the frames of the threads calling the organizer
    boot            \* the environment and how far the start of the server got

\* the observations of a direct _make_request call
obs == <<log, sleeps, reauths, get_tokens, ncalls>>

\* the state of the dispatcher
hvars ==
    <<inv, hpc, plan, iter, units, reply, http, net, wire, target_folder_id>>

\* the state of the JSON-RPC server
mvars == <<cfg, mreq, mpc, mresp, monitor>>

vars == <<access_token, issued, call, obs, hvars, mvars, threads, boot>>

IdleCall ==
    [pc |-> "idle", max_retries |-> 0, attempt |-> 0, bearer |-> NoToken,
     result |-> "", error |-> NoError]

(***************************************************************************)
(* _authenticate: nothing when a token is cached; otherwise one get_token, *)
(* whose token is cached, or whose failure is raised as                    *)
(* "Authentication failed: ...".                                           *)
(***************************************************************************)
\* a failure of get_token that is not raised
Authenticate_Swallows(tok, n, idp) ==
    IF tok # NoToken
    THEN [access_token |-> tok, issued |-> n, raised |-> FALSE, called |-> 0]
    ELSE IF idp = "token"
         THEN [access_token |-> n + 1, issued |-> n + 1, raised |-> FALSE,
               called |-> 1]
         ELSE [access_token |-> NoToken, issued |-> n, raised |-> FALSE,
               called |-> 1]

Authenticate(tok, n, idp) ==
    IF tok # NoToken
    THEN [access_token |-> tok, issued |-> n, raised |-> FALSE, called |-> 0]
    ELSE IF idp = "token"
         THEN [access_token |-> n + 1, issued |-> n + 1, raised |-> FALSE,
               called |-> 1]
         ELSE [access_token |-> NoToken, issued |-> n, raised |-> TRUE,
               called |-> 1]

\* the exception _authenticate raises
IdentityError == Err("Authentication failed", 0)

(***************************************************************************)
(* The head of _make_request: authenticate when no token is cached, build  *)
(* the headers, enter the loop (an empty range goes straight to the        *)
(* statement after the loop).                                              *)
(***************************************************************************)
\* a head that acquires a token at every call
Begin_Refreshes(tok, n, max_retries, idp) ==
    LET a == Authenticate(NoToken, n, idp) IN
    [access_token |-> a.access_token,
     issued |-> a.issued,
     called |-> a.called,
     call |->
        IF a.raised
        THEN [IdleCall EXCEPT !.pc = "raised", !.max_retries = max_retries,
                              !.error = IdentityError]
        ELSE IF max_retries + 1 <= 0
        THEN [IdleCall EXCEPT !.pc = "raised", !.max_retries = max_retries,
                              !.bearer = a.access_token,
                              !.error = Err("Maximum retry attempts exceeded", 0)]
        ELSE [IdleCall EXCEPT !.pc = "loop", !.max_retries = max_retries,
                              !.bearer = a.access_token]]

Begin(tok, n, max_retries, idp) ==
    LET a == Authenticate(tok, n, idp) IN
    [access_token |-> a.access_token,
     issued |-> a.issued,
     called |-> a.called,
     call |->
        IF a.raised
        THEN [IdleCall EXCEPT !.pc = "raised", !.max_retries = max_retries,
                              !.error = IdentityError]
        ELSE IF max_retries + 1 <= 0
        THEN [IdleCall EXCEPT !.pc = "raised", !.max_retries = max_retries,
                              !.bearer = a.access_token,
                              !.error = Err("Maximum retry attempts exceeded", 0)]
        ELSE [IdleCall EXCEPT !.pc = "loop", !.max_retries = max_retries,
                              !.bearer = a.access_token]]

\* the loop's "continue": the next attempt, or the statement after the loop
Continue(c) ==
    IF c.attempt < c.max_retries
    THEN [c EXCEPT !.attempt = c.attempt + 1]
    ELSE [c EXCEPT !.pc = "raised",
                   !.error = Err("Maximum retry attempts exceeded", 0)]

Return(c, v) == [c EXCEPT !.pc = "returned", !.result = v]

Raise(c, e) == [c EXCEPT !.pc = "raised", !.error = e]

\* what one iteration leaves unchanged unless it says otherwise
Step(tok, n, c) ==
    [access_token |-> tok, issued |-> n, call |-> c, sleep |-> <<>>,
     reauth |-> 0, called |-> 0]

\* status in [200, 201, 204]
OnSuccess(tok, n, c, resp) ==
    IF resp.status = 204
    THEN Step(tok, n, Return(c, "completed"))
    ELSE IF resp.body = "empty"
    THEN Step(tok, n, Return(c, "success"))
    ELSE IF resp.body = "text"
    THEN Step(tok, n, Raise(c, Err("JSONDecodeError", resp.status)))
    ELSE Step(tok, n, Return(c, resp.body))

\* a rate-limit branch that sleeps once more than the budget allows
OnRateLimit_OneMore(tok, n, c, resp) ==
    IF resp.retry_after # "absent" /\ PyIntRaises(resp.retry_after)
    THEN Step(tok, n, Raise(c, Err("ValueError", resp.status)))
    ELSE LET retry_after == IF resp.retry_after = "absent"
                            THEN 2 ^ c.attempt
                            ELSE PyInt(resp.retry_after)
         IN  IF c.attempt <= c.max_retries
             THEN [Step(tok, n, Continue(c)) EXCEPT !.sleep = <<retry_after>>]
             ELSE Step(tok, n, Raise(c, Err("Rate limit exceeded", resp.status)))

\* status == 429
OnRateLimit(tok, n, c, resp) ==
    IF resp.retry_after # "absent" /\ PyIntRaises(resp.retry_after)
    THEN Step(tok, n, Raise(c, Err("ValueError", resp.status)))
    ELSE LET retry_after == IF resp.retry_after = "absent"
                            THEN 2 ^ c.attempt
                            ELSE PyInt(resp.retry_after)
         IN  IF c.attempt < c.max_retries
             THEN [Step(tok, n, Continue(c)) EXCEPT !.sleep = <<retry_after>>]
             ELSE Step(tok, n, Raise(c, Err("Rate limit exceeded", resp.status)))

\* a re-authentication on every 401, whatever the attempt
MayReauthenticate_Always(c) == c.attempt >= 0

\* the guard of the re-authentication branch
MayReauthenticate(c) == c.attempt = 0

\* a re-authentication whose new token is not put into the headers
OnUnauthorized_KeepsHeader(tok, n, c, resp, idp) ==
    IF MayReauthenticate(c)
    THEN LET a == Authenticate(NoToken, n, idp) IN
         [access_token |-> a.access_token,
          issued |-> a.issued,
          call |-> IF a.raised
                   THEN Raise(c, IdentityError)
                   ELSE Continue(c),
          sleep |-> <<>>,
          reauth |-> 1,
          called |-> a.called]
    ELSE Step(tok, n, Raise(c, Err("Authentication failed", resp.status)))

\* status == 401
OnUnauthorized(tok, n, c, resp, idp) ==
    IF MayReauthenticate(c)
    THEN LET a == Authenticate(NoToken, n, idp) IN
         [access_token |-> a.access_token,
          issued |-> a.issued,
          call |-> IF a.raised
                   THEN Raise(c, IdentityError)
                   ELSE Continue([c EXCEPT !.bearer = a.access_token]),
          sleep |-> <<>>,
          reauth |-> 1,
          called |-> a.called]
    ELSE Step(tok, n, Raise(c, Err("Authentication failed", resp.status)))

\* a generic failure that does not carry the status
OnOther_DropsStatus(tok, n, c, resp) ==
    Step(tok, n, Raise(c, Err("API request failed", 0)))

\* for other errors, don't retry
OnOther(tok, n, c, resp) ==
    Step(tok, n, Raise(c, Err("API request failed", resp.status)))

\* a server-error retry after a fixed delay
OnServerError_FixedDelay(tok, n, c, resp) ==
    IF c.attempt < c.max_retries
    THEN [Step(tok, n, Continue(c)) EXCEPT !.sleep = <<1>>]
    ELSE OnOther(tok, n, c, resp)

\* status >= 500
OnServerError(tok, n, c, resp) ==
    IF c.attempt < c.max_retries
    THEN [Step(tok, n, Continue(c)) EXCEPT !.sleep = <<2 ^ c.attempt>>]
    ELSE OnOther(tok, n, c, resp)

\* an iteration that takes 202 Accepted for a success
Iteration_AcceptsAccepted(tok, n, c, resp, idp) ==
    IF resp.status \in {200, 201, 202, 204} THEN OnSuccess(tok, n, c, resp)
    ELSE IF resp.status = 429 THEN OnRateLimit(tok, n, c, resp)
    ELSE IF resp.status = 401 THEN OnUnauthorized(tok, n, c, resp, idp)
    ELSE IF resp.status >= 500 THEN OnServerError(tok, n, c, resp)
    ELSE OnOther(tok, n, c, resp)

(***************************************************************************)
(* One iteration of the retry loop: the response to the request of         *)
(* attempt c.attempt is classified.                                        *)
(***************************************************************************)
Iteration(tok, n, c, resp, idp) ==
    IF resp.status \in {200, 201, 204} THEN OnSuccess(tok, n, c, resp)
    ELSE IF resp.status = 429 THEN OnRateLimit(tok, n, c, resp)
    ELSE IF resp.status = 401 THEN OnUnauthorized(tok, n, c, resp, idp)
    ELSE IF resp.status >= 500 THEN OnServerError(tok, n, c, resp)
    ELSE OnOther(tok, n, c, resp)

Done(c) == c.pc \in {"returned", "raised"}

\* no invocation is being served
NoReply ==
    [sent |-> FALSE, raised |-> FALSE, keys |-> {}, success |-> FALSE,
     data |-> "", error |-> ""]

NoHttp == [status |-> 0, keys |-> {}, success |-> FALSE]

NoData ==
    [json |-> TRUE, dict |-> TRUE, args |-> [a \in {} |-> ""],
     user_id |-> FALSE, list |-> [iterable |-> TRUE, items |-> <<>>]]

HandleIdle ==
    /\ inv = [entry |-> "none", tool |-> "", data |-> NoData, handled |-> FALSE,
              token0 |-> NoToken]
    /\ hpc = "idle"
    /\ plan = <<>>
    /\ iter = [items |-> <<>>, i |-> 0, results |-> <<>>, files |-> <<>>]
    /\ units = <<>>
    /\ reply = NoReply
    /\ http = NoHttp
    /\ net = [auth |-> FALSE, remote |-> FALSE]
    /\ wire = <<>>
    /\ target_folder_id = ""

(***************************************************************************)
(* The JSON-RPC server (mcp_server.py): the gateway middleware             *)
(* APIKeyMiddleware, the endpoint POST /mcp and the three tool wrappers.   *)
(***************************************************************************)
\* JSON-RPC error codes of mcp_jsonrpc
ParseError == -32700
InvalidRequest == -32600
NotFound == -32601
InvalidParams == -32602
ExecutionError == -32000

\* if path in ["/", "/health", "/docs", "/openapi.json", "/mcp"]
PublicPaths == {"/", "/health", "/docs", "/openapi.json", "/mcp"}

\* the paths of incoming requests: the listed ones and one that is not
Paths == PublicPaths \cup {"/tools"}

\* the routes of the application
Routes == {"/health", "/docs", "/openapi.json", "/mcp"}

\* API_KEY, and a key that differs from it
ApiKey == "right"

\* the key header of a request (absent, empty, or a value) and the key of
\* its query string (absent or a non-empty value)
HeaderKeys == {"absent", "", "wrong", ApiKey}

QueryKeys == {"absent", "wrong", ApiKey}

\* the Authorization header: absent, another scheme, or a bearer JWT that
\* validates, that validates but for the audience, or that does not
Bearers == {"absent", "basic", "valid", "wrong_audience", "invalid"}

\* the methods of class OneDriveOrganizer
OrganizerMethods ==
    {"_authenticate", "_make_request", "_get_user_id", "_get_drive_id",
     "list_files", "create_folder", "move_file", "delete_file",
     "search_files", "get_file_info", "upload_file", "download_file",
     "copy_file", "rename_file", "get_file_content", "get_file_thumbnail",
     "search_by_type", "search_by_date", "get_recent_files",
     "get_storage_usage", "bulk_move", "bulk_delete", "bulk_copy",
     "organize_files"}

\* a dispatch with a branch for a name that is not advertised
McpTools_Unlisted ==
    {"move_large_file", "copy_large_file", "poll_copy_status", "list_files"}

\* the names tools/call dispatches
McpTools == {"move_large_file", "copy_large_file", "poll_copy_status"}

\* the names of the tools get_tools_list() returns
ListedTools == {"move_large_file", "copy_large_file", "poll_copy_status"}

\* inputSchema.required of the tool get_tools_list() returns under a name
RequiredArguments(name) ==
    CASE name = "move_large_file" -> {"drive_id", "item_id", "new_parent_id"}
      [] name = "copy_large_file" ->
            {"source_drive_id", "item_id", "target_drive_id",
             "target_parent_id"}
      [] name = "poll_copy_status" -> {"monitor_url"}
      [] OTHER -> {}

\* the methods mcp_jsonrpc answers
McpMethods ==
    {"initialize", "notifications/initialized", "tools/list", "tools/call"}

\* the states of the remote copy monitor
MonitorStates == {"inProgress", "completed", "failed"}

\* params of a request: missing or falsy ("absent"), a truthy value that is
\* no object ("other"), or an object with name and arguments; arguments
\* are missing or falsy ("absent"), an object with every required argument
\* of the tool ("object"), an object that lacks one ("incomplete"), or a
\* truthy value that is no object ("other")
NoParams == [kind |-> "absent", name |-> "None", arguments |-> "absent"]

ParamsValues ==
    {NoParams, [NoParams EXCEPT !.kind = "other"]}
    \cup { [kind |-> "object", name |-> n, arguments |-> a] :
              n \in {"None", "", "list_files"} \cup McpTools,
              a \in {"absent", "object", "incomplete", "other"} }

\* the body of POST /mcp: not JSON, JSON that is no object, or an object
NoBody ==
    [json |-> FALSE, dict |-> FALSE, jsonrpc |-> "None", id |-> "None",
     method |-> "None", params |-> NoParams]

\* the id member of a request object: missing or null ("None"), or a value
RequestIds == {"None", "7"}

Bodies ==
    {NoBody, [NoBody EXCEPT !.json = TRUE]}
    \cup { [json |-> TRUE, dict |-> TRUE, jsonrpc |-> v, id |-> i,
            method |-> m, params |-> p] :
              v \in {"2.0", "1.0", "None"}, i \in RequestIds,
              m \in (McpMethods \ {"tools/call"}) \cup {"resources/list", "None"},
              p \in {NoParams} }
    \cup { [json |-> TRUE, dict |-> TRUE, jsonrpc |-> v, id |-> i,
            method |-> "tools/call", params |-> p] :
              v \in {"2.0", "1.0"}, i \in RequestIds, p \in ParamsValues }

\* the requests the server may receive
Requests ==
    { [path |-> p, header_key |-> h, query_key |-> q, bearer |-> b,
       body |-> d] :
         p \in Paths, h \in HeaderKeys, q \in QueryKeys, b \in Bearers,
         d \in Bodies }

\* the reply of the server; id is the id member of a JSON-RPC object,
\* "absent" when the reply has none
Reply(kind, status, code, called, output) ==
    [kind |-> kind, status |-> status, code |-> code, called |-> called,
     output |-> output, id |-> "absent"]

\* a JSON-RPC object without the id member
ReplyTo_NoId(req_id, rep) == rep

\* a JSON-RPC object {"jsonrpc": "2.0", "id": req_id, ...}
ReplyTo(req_id, rep) == [rep EXCEPT !.id = req_id]

NoReplyYet == Reply("none", 0, 0, "", "")

\* organizer.<name>(...): a method of the class returns or raises, a name
\* the class does not define raises AttributeError
OrganizerCall(name) ==
    IF name \in OrganizerMethods THEN {"returned", "raised"} ELSE {"raised"}

\* move_large_file / copy_large_file / poll_copy_status: the result of the
\* organizer's method, or {"error": ...} when it raises
Wrapper(name, outcome) ==
    IF outcome = "raised" THEN "error" ELSE "result"

\* Python's "not name"
NoName(name) == name \in {"None", ""}

\* mcp_jsonrpc
McpJsonRpc(body, outcome) ==
    IF ~body.json THEN Reply("error", 400, ParseError, "", "")
    ELSE IF ~body.dict THEN Reply("unhandled", 500, 0, "", "")
    ELSE IF body.jsonrpc # "2.0"
    THEN ReplyTo(body.id, Reply("error", 400, InvalidRequest, "", ""))
    ELSE IF body.method \in {"initialize", "notifications/initialized"}
    THEN ReplyTo(body.id, Reply("result", 200, 0, "", ""))
    ELSE IF body.method = "tools/list"
    THEN ReplyTo(body.id, Reply("result", 200, 0, "", "tools"))
    ELSE IF body.method = "tools/call"
    THEN IF body.params.kind = "other"
         THEN Reply("unhandled", 500, 0, "", "")
         ELSE IF NoName(body.params.name)
         THEN ReplyTo(body.id, Reply("error", 400, InvalidParams, "", ""))
         ELSE IF body.params.name \notin McpTools
         THEN ReplyTo(body.id, Reply("error", 404, NotFound, "", ""))
         ELSE IF body.params.arguments = "other"
         THEN ReplyTo(body.id, Reply("error", 500, ExecutionError, "", ""))
         ELSE ReplyTo(body.id,
                      Reply("result", 200, 0, body.params.name,
                            Wrapper(body.params.name, outcome)))
    ELSE ReplyTo(body.id, Reply("error", 404, NotFound, "", ""))

\* the application behind the middleware: its routes, 404 for the rest
App(r, outcome) ==
    IF r.path = "/mcp" THEN McpJsonRpc(r.body, outcome)
    ELSE IF r.path \in Routes THEN Reply("page", 200, 0, "", "")
    ELSE Reply("page", 404, 0, "", "")

\* a middleware that takes any bearer token for a validated one
JwtAccepted_AnyBearer(c, r) ==
    /\ c.oauth
    /\ c.jwks
    /\ r.bearer \in {"valid", "wrong_audience", "invalid"}

\* the bearer token is validated: OAuth is enabled, a JWKS client is
\* available, and jwt.decode succeeds, with or without the audience
JwtAccepted(c, r) ==
    /\ c.oauth
    /\ c.jwks
    /\ r.bearer \in {"valid", "wrong_audience"}

\* provided_key: the key header if it is not empty, else the query key
ProvidedKey(r) ==
    IF r.header_key \notin {"absent", ""} THEN r.header_key
    ELSE IF r.query_key # "absent" THEN r.query_key
    ELSE IF r.header_key = "" THEN "" ELSE "None"

\* APIKeyMiddleware.__call__ passes the request on
Admitted(c, r) ==
    \/ r.path \in PublicPaths
    \/ JwtAccepted(c, r)
    \/ ProvidedKey(r) = ApiKey

McpIdle ==
    /\ cfg = [oauth |-> FALSE, jwks |-> FALSE]
    /\ mreq = [path |-> "", header_key |-> "absent", query_key |-> "absent",
               bearer |-> "absent", body |-> NoBody]
    /\ mpc = "idle"
    /\ mresp = NoReplyYet
    /\ monitor = "inProgress"

(***************************************************************************)
(* Concurrent callers of the shared organizer: each thread runs            *)
(* _make_request statement by statement on the one access_token.           *)
(***************************************************************************)
\* number of threads calling the organizer at once
MaxThreads == 2

\* largest max_retries argument of a concurrent call
MaxRetriesConc == 1

Threads == 1..MaxThreads

\* the frame of a thread: where it stands in _make_request, its loop
\* variable, the token of its headers, where _authenticate returns to, and
\* the token get_token returned to it
IdleThread ==
    [pc |-> "idle", max_retries |-> 0, attempt |-> 0, bearer |-> NoToken,
     return_to |-> "", token |-> NoToken]

ThreadsIdle == threads = [t \in Threads |-> IdleThread]

(***************************************************************************)
(* The configuration and the start of the HTTP server: config.py reads the *)
(* environment, run.py validates it before it starts uvicorn, and the      *)
(* lifespan of the application validates it at startup.                    *)
(***************************************************************************)
\* os.getenv of a variable: not set ("None"), set to the empty string, or
\* set to a value
EnvValues == {"None", "", "value"}

\* the variables validate_config tests, in the order it tests them
RequiredVars == <<"CLIENT_ID", "CLIENT_SECRET", "TENANT_ID">>

\* the environments config.py may be imported in
Environments ==
    [CLIENT_ID : EnvValues, CLIENT_SECRET : EnvValues, TENANT_ID : EnvValues,
     HOST : {"None", "localhost"}]

\* HOST = os.getenv("HOST", "0.0.0.0")
HOST(env) == IF env.HOST = "None" THEN "0.0.0.0" ELSE env.HOST

\* a test that takes the empty string for a value
Unset_NoneOnly(v) == v = "None"

\* Python's "not CLIENT_ID": the variable is not set or is empty
Unset(v) == v \in {"None", ""}

\* missing_vars of validate_config
missing_vars(env) == SelectSeq(RequiredVars, LAMBDA v : Unset(env[v]))

\* validate_config(): returns True, or raises ValueError("Missing required
\* environment variables: " + ", ".join(missing_vars)); the message is
\* kept as the names it joins
validate_config(env) ==
    IF missing_vars(env) # <<>>
    THEN [raised |-> TRUE, names |-> missing_vars(env)]
    ELSE [raised |-> FALSE, names |-> <<>>]

\* no server was started
Booting(env) ==
    [env |-> env, entry |-> "", pc |-> "idle", error |-> <<>>, host |-> ""]

BootIdle ==
    boot = Booting([CLIENT_ID |-> "None", CLIENT_SECRET |-> "None",
                    TENANT_ID |-> "None", HOST |-> "None"])

(***************************************************************************)
(* Actions of the request executor.                                        *)
(***************************************************************************)
Init ==
    /\ access_token = NoToken
    /\ issued = 0
    /\ call = IdleCall
    /\ log = <<>>
    /\ sleeps = <<>>
    /\ reauths = 0
    /\ get_tokens = 0
    /\ ncalls = 0
    /\ HandleIdle
    /\ McpIdle
    /\ ThreadsIdle
    /\ BootIdle

\* a caller starts _make_request(method, endpoint, max_retries)
MakeRequest ==
    /\ call.pc = "idle" \/ Done(call)
    /\ ncalls < MaxCalls
    /\ \E max_retries \in 0..MaxRetriesArg, idp \in IdentityOutcomes :
          LET b == Begin(access_token, issued, max_retries, idp) IN
          /\ access_token' = b.access_token
          /\ issued' = b.issued
          /\ call' = b.call
          /\ get_tokens' = b.called
    /\ log' = <<>>
    /\ sleeps' = <<>>
    /\ reauths' = 0
    /\ ncalls' = ncalls + 1
    /\ UNCHANGED <<hvars, mvars, threads, boot>>

\* requests.request(...) of the current attempt is answered
Attempt ==
    /\ call.pc = "loop"
    /\ \E resp \in Responses, idp \in IdentityOutcomes :
          LET s == Iteration(access_token, issued, call, resp, idp) IN
          /\ access_token' = s.access_token
          /\ issued' = s.issued
          /\ call' = s.call
          /\ log' = Append(log, [bearer |-> call.bearer, status |-> resp.status,
                                 retry_after |-> resp.retry_after,
                                 attempt |-> call.attempt, reauth |-> s.reauth])
          /\ sleeps' = sleeps \o s.sleep
          /\ reauths' = reauths + s.reauth
          /\ get_tokens' = get_tokens + s.called
    /\ UNCHANGED <<ncalls, hvars, mvars, threads, boot>>

Next == MakeRequest \/ Attempt

Spec == Init /\ [][Next]_vars

\* every request of a call is answered: requests.request returns
SpecLive == Spec /\ WF_vars(Attempt)

(***************************************************************************)
(* The tool set and the arguments of a tool invocation.                    *)
(***************************************************************************)
\* largest number of identifiers in a bulk request
MaxIds == 2
\* largest number of rules in an organize_files request
MaxRules == 2
\* largest number of entries a search returns
MaxMatches == 2
\* tokens the identity endpoint issues to one process before it only rejects
MaxTokens == 2

\* the list with a name that _handle has no branch for
ALLOWED_TOOLS_Extra ==
    {"list_files", "organize_files", "create_folder", "move_file",
     "delete_file", "search_files", "get_file_info", "upload_file",
     "download_file", "copy_file", "rename_file", "get_file_content",
     "get_file_thumbnail", "search_by_type", "search_by_date",
     "get_recent_files", "get_storage_usage", "bulk_move", "bulk_delete",
     "bulk_copy", "move_large_file"}

ALLOWED_TOOLS ==
    {"list_files", "organize_files", "create_folder", "move_file",
     "delete_file", "search_files", "get_file_info", "upload_file",
     "download_file", "copy_file", "rename_file", "get_file_content",
     "get_file_thumbnail", "search_by_type", "search_by_date",
     "get_recent_files", "get_storage_usage", "bulk_move", "bulk_delete",
     "bulk_copy"}

\* a chain that lacks the branch of bulk_copy
HandledTools_NoBulkCopy ==
    {"list_files", "create_folder", "move_file", "delete_file",
     "search_files", "get_file_info", "organize_files", "upload_file",
     "download_file", "copy_file", "rename_file", "get_file_content",
     "get_file_thumbnail", "search_by_type", "search_by_date",
     "get_recent_files", "get_storage_usage", "bulk_move", "bulk_delete"}

\* the names the if/elif chain of _handle has a branch for
HandledTools ==
    {"list_files", "create_folder", "move_file", "delete_file",
     "search_files", "get_file_info", "organize_files", "upload_file",
     "download_file", "copy_file", "rename_file", "get_file_content",
     "get_file_thumbnail", "search_by_type", "search_by_date",
     "get_recent_files", "get_storage_usage", "bulk_move", "bulk_delete",
     "bulk_copy"}

\* names a client may send that are no tool of this transport
OtherTools == {"move_large_file", "format_disk"}

ToolNames == ALLOWED_TOOLS \cup OtherTools

BulkTools == {"bulk_move", "bulk_delete", "bulk_copy"}

BatchTools == BulkTools \cup {"organize_files"}

\* the arguments a branch of _handle tests with "if not ..."
Required(tool) ==
    CASE tool = "create_folder" -> {"name"}
      [] tool = "move_file" -> {"file_id", "new_parent_path"}
      [] tool \in {"delete_file", "get_file_info", "get_file_content",
                   "get_file_thumbnail"} -> {"file_id"}
      [] tool = "search_files" -> {"query"}
      [] tool = "upload_file" -> {"file_path", "target_path"}
      [] tool = "download_file" -> {"file_id", "local_path"}
      [] tool = "copy_file" -> {"file_id", "new_name", "target_path"}
      [] tool = "rename_file" -> {"file_id", "new_name"}
      [] tool = "search_by_type" -> {"file_type"}
      [] tool = "search_by_date" -> {"start_date", "end_date"}
      [] tool \in {"bulk_move", "bulk_copy"} -> {"target_path"}
      [] OTHER -> {}

\* the list argument read with data.get(name, [])
ListArg(tool) ==
    CASE tool \in BulkTools -> "file_ids"
      [] tool = "organize_files" -> "rules"
      [] OTHER -> "none"

\* the error a branch returns when its test fails
ValidationMessage(tool) ==
    CASE tool = "create_folder" -> "Folder name is required"
      [] tool = "move_file" -> "File ID and new parent path are required"
      [] tool \in {"delete_file", "get_file_info", "get_file_content",
                   "get_file_thumbnail"} -> "File ID is required"
      [] tool = "search_files" -> "Search query is required"
      [] tool = "organize_files" -> "Organization rules are required"
      [] tool = "upload_file" -> "File path and target path are required"
      [] tool = "download_file" -> "File ID and local path are required"
      [] tool = "copy_file" ->
            "File ID, new name, and target path are required"
      [] tool = "rename_file" -> "File ID and new name are required"
      [] tool = "search_by_type" -> "File type is required"
      [] tool = "search_by_date" -> "Start date and end date are required"
      [] tool \in {"bulk_move", "bulk_copy"} ->
            "File IDs and target path are required"
      [] tool = "bulk_delete" -> "File IDs are required"
      [] OTHER -> ""

\* argument values: "None" is a missing key (data.get gives None), "" the
\* empty string; a path is "/" or another path
PathArgs == {"new_parent_path", "target_path"}

ArgValues(name) ==
    IF name \in PathArgs THEN {"None", "", "/", "/Docs"} ELSE {"None", "", "x"}

AllArgValues == {"None", "", "/", "/Docs", "x"}

\* the identifiers of a bulk request: the first k of a list in which an
\* identifier comes back
FileIds == <<"b", "a", "c", "a", "d">>

IdSeqs == { SubSeq(FileIds, 1, k) : k \in 1..MaxIds }

\* the rules of organize_files: "None" is a missing key
Rules ==
    << [action |-> "move", search_query |-> "*.pdf", target_folder |-> "None"],
       [action |-> "move", search_query |-> "*.pdf", target_folder |-> "PDFs"],
       [action |-> "None", search_query |-> "*.pdf", target_folder |-> "PDFs"],
       [action |-> "delete", search_query |-> "*.tmp", target_folder |-> "None"],
       [action |-> "archive", search_query |-> "*.pdf", target_folder |-> "PDFs"],
       [action |-> "move", search_query |-> "", target_folder |-> "PDFs"],
       [action |-> "delete", search_query |-> "", target_folder |-> "None"] >>

\* the rule lists of a request: each rule of Rules followed by the rules
\* after it (cyclically), up to MaxRules rules
RuleSeqs ==
    { [k \in 1..n |-> Rules[((i + k - 2) % Len(Rules)) + 1]] :
         i \in 1..Len(Rules), n \in 1..MaxRules }

\* the entries of a search result: the k-th has the k-th id and is a file
\* or a folder
MatchIds == <<"m1", "m2", "m3", "m4">>

MatchSeqs ==
    UNION { { [j \in 1..k |-> [id |-> MatchIds[j], kind |-> f[j]]] :
                 f \in [1..k -> {"file", "folder"}] } : k \in 0..MaxMatches }

\* the values of a list argument: a list, or a value that is not iterable
\* (a number)
Lists(tool) ==
    IF tool \in BatchTools
    THEN { [iterable |-> TRUE, items |-> s] :
              s \in {<<>>} \cup (IF tool \in BulkTools THEN IdSeqs ELSE RuleSeqs) }
         \cup { [iterable |-> FALSE, items |-> <<>>] }
    ELSE { [iterable |-> TRUE, items |-> <<>>] }

\* the JSON values a request body may hold: an object with the tool's
\* arguments, or a value that is no object
JsonBodies(tool) ==
    { [NoData EXCEPT !.dict = FALSE] }
    \cup { [json |-> TRUE, dict |-> TRUE, args |-> f, user_id |-> u, list |-> l] :
              f \in { g \in [Required(tool) -> AllArgValues] :
                         \A a \in Required(tool) : g[a] \in ArgValues(a) },
              u \in BOOLEAN,
              l \in Lists(tool) }

\* a request body that is not JSON
Unparsable == [NoData EXCEPT !.json = FALSE, !.dict = FALSE]

\* Python's "not x" on an argument value
Falsy(v) == v \in {"None", ""}

\* a test for None in place of "not x"
Valid_OnlyNone(tool, data) ==
    /\ \A a \in Required(tool) : data.args[a] # "None"
    /\ ListArg(tool) # "none" =>
          (~data.list.iterable \/ data.list.items # <<>>)

\* the test of a branch of _handle passes
Valid(tool, data) ==
    /\ \A a \in Required(tool) : ~Falsy(data.args[a])
    /\ ListArg(tool) # "none" =>
          (~data.list.iterable \/ data.list.items # <<>>)

(***************************************************************************)
(* The operation translator: each operation is the sequence of its remote  *)
(* steps.  "users", "drives", "lookup", "info", "search", "get", "post",   *)
(* "patch", "delete" are _make_request calls; "put_content", "download",   *)
(* "get_content" are requests sent without the executor; "moved",          *)
(* "deleted", "keyerror" are local.                                        *)
(***************************************************************************)
CallSteps ==
    {"users", "drives", "lookup", "info", "search", "get", "post", "patch",
     "delete", "create", "rename"}

DirectSteps == {"put_content", "download", "get_content"}

LocalSteps == {"root", "moved", "deleted", "keyerror"}

\* a folder creation that overwrites
ConflictBehavior_Replace == "replace"

\* "@microsoft.graph.conflictBehavior": "rename"
ConflictBehavior == "rename"

\* the remote's children of one parent: folders with a name and a content;
\* name n may be taken, and so may the first name the remote renames to
SiblingSets(n) ==
    SUBSET { [name |-> m, content |-> "old"] : m \in {n, n \o " 1"} }

\* the name the remote gives a new folder under conflict behaviour "rename"
RenamedFrom(S, n) ==
    IF \A f \in S : f.name # n THEN n
    ELSE IF \A f \in S : f.name # n \o " 1" THEN n \o " 1"
    ELSE n \o " 2"

\* a remote that honours the conflict behaviour of POST .../children: the
\* children afterwards and the folder created ("fail" creates none)
RemoteCreate(S, n, conflict) ==
    IF \A f \in S : f.name # n
    THEN [children |-> S \cup {[name |-> n, content |-> "new"]},
          created |-> {[name |-> n, content |-> "new"]}]
    ELSE IF conflict = "rename"
    THEN [children |-> S \cup {[name |-> RenamedFrom(S, n), content |-> "new"]},
          created |-> {[name |-> RenamedFrom(S, n), content |-> "new"]}]
    ELSE IF conflict = "replace"
    THEN [children |-> { f \in S : f.name # n }
                          \cup {[name |-> n, content |-> "new"]},
          created |-> {[name |-> n, content |-> "new"]}]
    ELSE [children |-> S, created |-> {}]

\* target_folder_id = "root"
RootFolderId == "root"

\* the ids a path lookup may answer with
FolderIds == {"f1", "f2"}

\* the steps p, each with the item it is about
Tag(p, item) == [k \in 1..Len(p) |-> [step |-> p[k], item |-> item]]

\* an argument of the request, "" when the tool has none of that name
Arg(data, name) ==
    IF name \in DOMAIN data.args THEN data.args[name] ELSE ""

\* if not user_id: user_id = self._get_user_id(); self._get_drive_id(user_id)
Prefix(user_id) ==
    Tag(IF user_id THEN <<"drives">> ELSE <<"users", "drives">>, "")

\* every target is looked up by path, the root too
PathLookup_Always(path) == Tag(<<"lookup">>, path)

\* the target folder: the root sentinel, or a lookup by path
PathLookup(path) ==
    IF path = "/" THEN Tag(<<"root">>, path) ELSE Tag(<<"lookup">>, path)

move_file(file_id, new_parent_path, user_id) ==
    Prefix(user_id) \o PathLookup(new_parent_path) \o Tag(<<"patch">>, file_id)

copy_file(file_id, target_path, user_id) ==
    Prefix(user_id) \o PathLookup(target_path) \o Tag(<<"post">>, file_id)

delete_file(file_id, user_id) == Prefix(user_id) \o Tag(<<"delete">>, file_id)

create_folder(name, user_id) == Prefix(user_id) \o Tag(<<"create">>, name)

search_files(query, user_id) == Prefix(user_id) \o Tag(<<"search">>, query)

\* the operations that end with one GET through the executor
get_file_info(file_id, user_id) == Prefix(user_id) \o Tag(<<"get">>, file_id)

\* the steps of a single-item tool
OpPlan(tool, data) ==
    CASE tool = "create_folder" ->
            create_folder(data.args["name"], data.user_id)
      [] tool = "move_file" ->
            move_file(data.args["file_id"], data.args["new_parent_path"],
                      data.user_id)
      [] tool = "delete_file" -> delete_file(data.args["file_id"], data.user_id)
      [] tool = "upload_file" ->
            Prefix(data.user_id)
               \o Tag(<<"put_content">>, data.args["target_path"])
      [] tool = "download_file" ->
            Prefix(data.user_id) \o Tag(<<"download">>, data.args["file_id"])
      [] tool = "get_file_content" ->
            Prefix(data.user_id) \o Tag(<<"get_content">>, data.args["file_id"])
      [] tool = "copy_file" ->
            copy_file(data.args["file_id"], data.args["target_path"],
                      data.user_id)
      [] tool = "rename_file" ->
            Prefix(data.user_id) \o Tag(<<"rename">>, data.args["file_id"])
      [] tool = "search_files" ->
            search_files(data.args["query"], data.user_id)
      [] OTHER -> get_file_info(Arg(data, "file_id"), data.user_id)

\* the steps of one item of a batch, up to the first result that decides
\* the rest
UnitPlan(tool, data, item) ==
    CASE tool = "bulk_move" ->
            move_file(item, data.args["target_path"], data.user_id)
      [] tool = "bulk_delete" -> delete_file(item, data.user_id)
      [] tool = "bulk_copy" ->
            Prefix(data.user_id) \o Tag(<<"info">>, item)
               \o copy_file(item, data.args["target_path"], data.user_id)
      [] tool = "organize_files" ->
            IF item.action \in {"move", "delete"} /\ item.search_query # ""
            THEN search_files(item.search_query, FALSE)
            ELSE <<>>
      [] OTHER -> OpPlan(tool, data)

\* rule['action'] of a rule without that key
UnitStartRaises(tool, item) ==
    tool = "organize_files" /\ item.action = "None"

\* folders are moved and deleted like files
IsFile_Any(entry) == entry.kind \in {"file", "folder"}

\* if file.get('file'): only files, not folders
IsFile(entry) == entry.kind = "file"

\* what a rule does with one entry of its search result
EntryPlan(rule, entry) ==
    IF ~IsFile(entry) THEN <<>>
    ELSE IF rule.action = "delete"
    THEN delete_file(entry.id, FALSE) \o Tag(<<"deleted">>, entry.id)
    ELSE IF rule.target_folder = "None" THEN Tag(<<"keyerror">>, entry.id)
    ELSE create_folder(rule.target_folder, FALSE)
            \o move_file(entry.id, rule.target_folder, FALSE)
            \o Tag(<<"moved">>, entry.id)

RECURSIVE MatchPlan(_, _)
MatchPlan(rule, m) ==
    IF m = <<>> THEN <<>>
    ELSE EntryPlan(rule, Head(m)) \o MatchPlan(rule, Tail(m))

\* files.get('value', []) of a search result
Matches(result) == IF result = "item" THEN MatchSeqs ELSE {<<>>}

\* a caller that goes on after a failed PATCH
StepOutcome_HidesPatchFailure(step, c) ==
    IF c.pc = "raised" /\ step # "patch"
    THEN [raised |-> TRUE, error |-> c.error, result |-> ""]
    ELSE IF step \in {"users", "drives"} /\ c.result # "item"
    THEN [raised |-> TRUE, error |-> Err("No " \o step \o " found", 0),
          result |-> ""]
    ELSE IF step \in {"lookup", "info"} /\ c.result # "item"
    THEN [raised |-> TRUE, error |-> Err("KeyError", 0), result |-> ""]
    ELSE [raised |-> FALSE, error |-> NoError, result |-> c.result]

\* what the caller of _make_request does with its outcome
StepOutcome(step, c) ==
    IF c.pc = "raised"
    THEN [raised |-> TRUE, error |-> c.error, result |-> ""]
    ELSE IF step \in {"users", "drives"} /\ c.result # "item"
    THEN [raised |-> TRUE, error |-> Err("No " \o step \o " found", 0),
          result |-> ""]
    ELSE IF step \in {"lookup", "info"} /\ c.result # "item"
    THEN [raised |-> TRUE, error |-> Err("KeyError", 0), result |-> ""]
    ELSE [raised |-> FALSE, error |-> NoError, result |-> c.result]

\* requests.put / requests.get sent without the executor, and the local
\* file the operation opens
DirectOutcome(step, resp, file_ok) ==
    IF step = "put_content" /\ ~file_ok
    THEN [sent |-> FALSE, raised |-> TRUE,
          error |-> Err("FileNotFoundError", 0), result |-> ""]
    ELSE IF step = "put_content"
    THEN IF resp.status \notin {200, 201}
         THEN [sent |-> TRUE, raised |-> TRUE,
               error |-> Err("Upload failed", resp.status), result |-> ""]
         ELSE IF resp.body \in {"empty", "text"}
         THEN [sent |-> TRUE, raised |-> TRUE,
               error |-> Err("JSONDecodeError", resp.status), result |-> ""]
         ELSE [sent |-> TRUE, raised |-> FALSE, error |-> NoError,
               result |-> resp.body]
    ELSE IF resp.status # 200
    THEN [sent |-> TRUE, raised |-> TRUE,
          error |-> Err(IF step = "download" THEN "Download failed"
                        ELSE "Failed to get file content", resp.status),
          result |-> ""]
    ELSE IF step = "download" /\ ~file_ok
    THEN [sent |-> TRUE, raised |-> TRUE,
          error |-> Err("FileNotFoundError", 0), result |-> ""]
    ELSE [sent |-> TRUE, raised |-> FALSE, error |-> NoError,
          result |-> IF step = "download" THEN "local_path" ELSE "content"]

(***************************************************************************)
(* The dispatcher _handle and the transport POST /invoke/{tool}.           *)
(***************************************************************************)
\* return {"success": True, "data": result}
HandleReturn(data) ==
    [sent |-> TRUE, raised |-> FALSE, keys |-> {"success", "data"},
     success |-> TRUE, data |-> data, error |-> ""]

\* return {"success": False, "error": ...}
Failure(msg) ==
    [sent |-> TRUE, raised |-> FALSE, keys |-> {"success", "error"},
     success |-> FALSE, data |-> "", error |-> msg]

\* the exception leaves _handle
HandleCatch_Escapes(e) ==
    [sent |-> TRUE, raised |-> TRUE, keys |-> {}, success |-> FALSE,
     data |-> "", error |-> e.msg]

\* except Exception as e: return {"success": False, "error": str(e)}
HandleCatch(e) == Failure(e.msg)

\* a logical failure answered with a server error
InvokeResponse_FailureIs500(entry, rep) ==
    IF entry # "invoke" THEN NoHttp
    ELSE IF rep.raised \/ ~rep.success
    THEN [status |-> 500, keys |-> {"success", "error"}, success |-> FALSE]
    ELSE [status |-> 200, keys |-> rep.keys, success |-> rep.success]

\* invoke_tool: what is sent once _handle has returned (or, were it to
\* raise, the 500 of the except branch)
InvokeResponse(entry, rep) ==
    IF entry # "invoke" THEN NoHttp
    ELSE IF rep.raised
    THEN [status |-> 500, keys |-> {"success", "error"}, success |-> FALSE]
    ELSE [status |-> 200, keys |-> rep.keys, success |-> rep.success]

\* raise HTTPException(status_code=400, detail=...)
UnknownToolResponse == [status |-> 400, keys |-> {"detail"}, success |-> FALSE]

\* the except branch of invoke_tool, taken when request.json() raises
BadBodyResponse ==
    [status |-> 500, keys |-> {"success", "error"}, success |-> FALSE]

\* an item that failed leaves no entry
BulkAppend_DropErrors(results, file_id, raised) ==
    IF raised THEN results
    ELSE Append(results, [file_id |-> file_id, status |-> "success"])

\* results.append of a bulk operation: the success or the error entry
BulkAppend(results, file_id, raised) ==
    Append(results, [file_id |-> file_id,
                     status |-> IF raised THEN "error" ELSE "success"])

\* an except branch that discards the records written so far
RuleAppend_DropsEarlier(results, i, raised) ==
    IF raised THEN <<[status |-> "error", rule |-> i]>>
    ELSE results

\* the except branch of a rule of organize_files
RuleAppend(results, i, raised) ==
    IF raised THEN Append(results, [status |-> "error", rule |-> i])
    ELSE results

\* _handle returns rep
Respond(entry, rep) ==
    /\ reply' = rep
    /\ http' = InvokeResponse(entry, rep)
    /\ hpc' = "done"

\* what credential.get_token may do once n tokens were issued
IdentityAfter(n) == IF n < MaxTokens THEN IdentityOutcomes ELSE {"rejected"}

\* what an operation hands to _make_request for step s (or sends itself):
\* the item of the URL or of the payload, the parentReference id, the
\* conflict behaviour; got is the id read from the answer of a path lookup
Request(s, t) ==
    [step |-> s.step, item |-> s.item,
     parent |-> IF s.step \in {"patch", "post"} THEN t ELSE "",
     conflict |-> IF s.step = "create" THEN ConflictBehavior ELSE "",
     got |-> ""]

\* the head of plan p starts: a _make_request authenticates when no token
\* is cached and enters its loop
Start(p, idp, n0, w, t) ==
    /\ target_folder_id' = t
    /\ IF p # <<>> /\ Head(p).step \in CallSteps
       THEN LET b == Begin(access_token, issued, DefaultMaxRetries, idp) IN
            /\ access_token' = b.access_token
            /\ issued' = b.issued
            /\ call' = b.call
            /\ net' = [n0 EXCEPT !.auth = @ \/ (b.called = 1)]
            /\ wire' = Append(w, Request(Head(p), t))
       ELSE /\ UNCHANGED <<access_token, issued>>
            /\ call' = IdleCall
            /\ net' = n0
            /\ wire' = w

\* no try/except around the item: its exception leaves the loop
CaughtInLoop_Never(tool) == tool \in {}

\* organize_files without the try/except around a rule
CaughtInLoop_BulkOnly(tool) == tool \in BulkTools

\* the try/except inside the loop of a batch operation
CaughtInLoop(tool) == tool \in BatchTools

\* the operation in progress returns r or raises e: a batch records the
\* item and goes on, a single operation ends _handle
EndUnit(raised, r, e, it, n0, w) ==
    /\ plan' = <<>>
    /\ call' = IdleCall
    /\ net' = n0
    /\ wire' = w
    /\ target_folder_id' = ""
    /\ UNCHANGED <<access_token, issued, inv>>
    /\ units' = [units EXCEPT ![Len(units)].outcome =
                                 IF raised THEN "raised" ELSE "returned"]
    /\ IF raised /\ ~CaughtInLoop(inv.tool)
       THEN /\ iter' = it
            /\ Respond(inv.entry, HandleCatch(e))
       ELSE IF inv.tool \in BulkTools
       THEN /\ iter' = [it EXCEPT !.results =
                                     BulkAppend(@, it.items[it.i], raised)]
            /\ hpc' = "next"
            /\ UNCHANGED <<reply, http>>
       ELSE IF inv.tool = "organize_files"
       THEN /\ iter' = [it EXCEPT !.results = RuleAppend(@, it.i, raised)]
            /\ hpc' = "next"
            /\ UNCHANGED <<reply, http>>
       ELSE /\ iter' = it
            /\ Respond(inv.entry,
                       IF raised THEN HandleCatch(e) ELSE HandleReturn(r))

\* a step ended well: the operation returns, or its next step starts
Proceed(p, r, it, n0, w, t) ==
    IF p = <<>>
    THEN EndUnit(FALSE, r, NoError, it, n0, w)
    ELSE /\ plan' = p
         /\ iter' = it
         /\ \E idp \in IdentityAfter(issued) : Start(p, idp, n0, w, t)
         /\ UNCHANGED <<inv, hpc, units, reply, http>>

\* _handle(tool, data) up to the call of the organizer
HandleStart(entry, tool, data) ==
    /\ inv' = [entry |-> entry, tool |-> tool, data |-> data, handled |-> TRUE,
               token0 |-> access_token]
    /\ UNCHANGED <<access_token, issued, call, obs, mvars, threads, boot, plan, units, net, wire,
                   target_folder_id>>
    /\ IF tool \notin HandledTools
       THEN /\ Respond(entry, Failure("Unknown tool: " \o tool))
            /\ UNCHANGED iter
       ELSE IF ~data.dict
       THEN /\ Respond(entry, HandleCatch(Err("AttributeError", 0)))
            /\ UNCHANGED iter
       ELSE IF ~Valid(tool, data)
       THEN /\ Respond(entry, Failure(ValidationMessage(tool)))
            /\ UNCHANGED iter
       ELSE IF ~data.list.iterable
       THEN /\ Respond(entry, HandleCatch(Err("TypeError", 0)))
            /\ UNCHANGED iter
       ELSE /\ hpc' = "next"
            /\ iter' = [items |-> IF tool \in BatchTools
                                  THEN data.list.items ELSE <<tool>>,
                        i |-> 0, results |-> <<>>, files |-> <<>>]
            /\ UNCHANGED <<reply, http>>

\* a caller invokes _handle(tool, data)
Handle ==
    /\ hpc = "idle"
    /\ \E tool \in ToolNames : \E data \in JsonBodies(tool) :
          HandleStart("handle", tool, data)

\* POST /invoke/{tool} with a request body
InvokeTool ==
    /\ hpc = "idle"
    /\ \E tool \in ToolNames : \E body \in JsonBodies(tool) \cup {Unparsable} :
          IF tool \notin ALLOWED_TOOLS \/ ~body.json
          THEN /\ inv' = [entry |-> "invoke", tool |-> tool, data |-> body,
                          handled |-> FALSE, token0 |-> access_token]
               /\ http' = IF tool \notin ALLOWED_TOOLS
                          THEN UnknownToolResponse ELSE BadBodyResponse
               /\ hpc' = "done"
               /\ UNCHANGED <<access_token, issued, call, obs, mvars, threads, boot, plan, iter,
                              units, reply, net, wire, target_folder_id>>
          ELSE HandleStart("invoke", tool, body)

\* the loop of a batch reaches its next item, or its end; a single
\* operation is called
NextUnit ==
    /\ hpc = "next"
    /\ UNCHANGED <<inv, obs, mvars, threads, boot>>
    /\ IF iter.i = Len(iter.items)
       THEN /\ Respond(inv.entry, HandleReturn("results"))
            /\ UNCHANGED <<access_token, issued, call, plan, iter, units, net,
                           wire, target_folder_id>>
       ELSE LET item == iter.items[iter.i + 1]
                it == [iter EXCEPT !.i = @ + 1, !.files = <<>>]
                p == UnitPlan(inv.tool, inv.data, item)
            IN  IF UnitStartRaises(inv.tool, item) \/ p = <<>>
                THEN /\ units' = Append(units,
                            [item |-> item,
                             outcome |-> IF UnitStartRaises(inv.tool, item)
                                         THEN "raised" ELSE "returned"])
                     /\ iter' = [it EXCEPT !.results =
                            RuleAppend(@, it.i, UnitStartRaises(inv.tool, item))]
                     /\ wire' = <<>>
                     /\ target_folder_id' = ""
                     /\ UNCHANGED <<access_token, issued, call, plan, hpc,
                                    reply, http, net>>
                ELSE /\ units' = Append(units,
                            [item |-> item, outcome |-> "running"])
                     /\ iter' = it
                     /\ plan' = p
                     /\ hpc' = "step"
                     /\ \E idp \in IdentityAfter(issued) :
                           Start(p, idp, net, <<>>, "")
                     /\ UNCHANGED <<reply, http>>

\* the request of the executor's current attempt is answered
OpAttempt ==
    /\ hpc = "step"
    /\ call.pc = "loop"
    /\ \E resp \in Responses, idp \in IdentityAfter(issued) :
          LET s == Iteration(access_token, issued, call, resp, idp) IN
          /\ access_token' = s.access_token
          /\ issued' = s.issued
          /\ call' = s.call
          /\ net' = [auth |-> net.auth \/ (s.called = 1), remote |-> TRUE]
    /\ UNCHANGED <<obs, mvars, threads, boot, inv, hpc, plan, iter, units, reply, http, wire,
                   target_folder_id>>

\* _make_request has returned or raised: its caller goes on; a path lookup
\* yields folder_response['id'], a search of organize_files its matches
Advance ==
    /\ hpc = "step"
    /\ Done(call)
    /\ UNCHANGED <<obs, mvars, threads, boot>>
    /\ LET o == StepOutcome(Head(plan).step, call) IN
       IF o.raised
       THEN EndUnit(TRUE, "", o.error, iter, net, wire)
       ELSE IF Head(plan).step = "search" /\ inv.tool = "organize_files"
       THEN \E m \in Matches(o.result) :
               Proceed(MatchPlan(iter.items[iter.i], m), o.result,
                       [iter EXCEPT !.files = m], net, wire, target_folder_id)
       ELSE IF Head(plan).step = "lookup"
       THEN \E id \in FolderIds :
               Proceed(Tail(plan), o.result, iter, net,
                       [wire EXCEPT ![Len(wire)].got = id], id)
       ELSE Proceed(Tail(plan), o.result, iter, net, wire, target_folder_id)

\* a request sent without the executor is answered
DirectAnswer ==
    /\ hpc = "step"
    /\ plan # <<>>
    /\ Head(plan).step \in DirectSteps
    /\ UNCHANGED <<obs, mvars, threads, boot>>
    /\ \E resp \in Responses, file_ok \in BOOLEAN :
          LET o == DirectOutcome(Head(plan).step, resp, file_ok)
              n0 == [net EXCEPT !.remote = @ \/ o.sent]
              w == IF o.sent
                   THEN Append(wire, Request(Head(plan), target_folder_id))
                   ELSE wire
          IN  IF o.raised
              THEN EndUnit(TRUE, "", o.error, iter, n0, w)
              ELSE Proceed(Tail(plan), o.result, iter, n0, w, target_folder_id)

\* a statement of an operation that sends nothing: target_folder_id =
\* "root"; organize_files records a moved or deleted file, or fails on a
\* rule without target_folder
Local ==
    /\ hpc = "step"
    /\ plan # <<>>
    /\ Head(plan).step \in LocalSteps
    /\ UNCHANGED <<obs, mvars, threads, boot>>
    /\ IF Head(plan).step = "keyerror"
       THEN EndUnit(TRUE, "", Err("KeyError", 0), iter, net, wire)
       ELSE IF Head(plan).step = "root"
       THEN Proceed(Tail(plan), "", iter, net, wire, RootFolderId)
       ELSE Proceed(Tail(plan), "",
                    [iter EXCEPT !.results =
                        Append(@, [status |-> "success",
                                   action |-> Head(plan).step,
                                   file |-> Head(plan).item])],
                    net, wire, target_folder_id)

\* the organizer of a running process: no token yet, or a cached one
InitHandle ==
    /\ access_token \in {NoToken, 1}
    /\ issued = access_token
    /\ call = IdleCall
    /\ log = <<>>
    /\ sleeps = <<>>
    /\ reauths = 0
    /\ get_tokens = 0
    /\ ncalls = 0
    /\ HandleIdle
    /\ McpIdle
    /\ ThreadsIdle
    /\ BootIdle

NextHandle ==
    Handle \/ InvokeTool \/ NextUnit \/ OpAttempt \/ Advance \/ DirectAnswer
       \/ Local

SpecHandle == InitHandle /\ [][NextHandle]_vars

(***************************************************************************)
(* Actions of the JSON-RPC server.                                         *)
(***************************************************************************)
\* the server process: its OAuth configuration and the copy whose monitor
\* URL a client holds
InitMcp ==
    /\ access_token = NoToken
    /\ issued = 0
    /\ call = IdleCall
    /\ log = <<>>
    /\ sleeps = <<>>
    /\ reauths = 0
    /\ get_tokens = 0
    /\ ncalls = 0
    /\ HandleIdle
    /\ cfg \in [oauth : BOOLEAN, jwks : BOOLEAN]
    /\ mreq = [path |-> "", header_key |-> "absent", query_key |-> "absent",
               bearer |-> "absent", body |-> NoBody]
    /\ mpc = "idle"
    /\ mresp = NoReplyYet
    /\ monitor = "inProgress"
    /\ ThreadsIdle
    /\ BootIdle

\* APIKeyMiddleware.__call__ on an HTTP request: 401, or the application's
\* answer
McpRequest ==
    /\ mpc = "idle"
    /\ \E r \in Requests :
          /\ r.path # "/mcp" => r.body = NoBody
          /\ mreq' = r
          /\ IF Admitted(cfg, r)
             THEN \E outcome \in (IF r.path = "/mcp" /\ r.body.dict
                                     /\ r.body.params.kind = "object"
                                  THEN OrganizerCall(r.body.params.name)
                                  ELSE {"raised"}) :
                     mresp' = App(r, outcome)
             ELSE mresp' = Reply("unauthorized", 401, 0, "", "")
    /\ mpc' = "done"
    /\ UNCHANGED <<access_token, issued, call, obs, hvars, cfg, monitor, threads, boot>>

\* the remote copy goes on: the monitor reports completion or failure
MonitorAdvance ==
    /\ monitor = "inProgress"
    /\ monitor' \in MonitorStates \ {"inProgress"}
    /\ UNCHANGED <<access_token, issued, call, obs, hvars, cfg, mreq, mpc,
                   mresp, threads, boot>>

NextMcp == McpRequest \/ MonitorAdvance

SpecMcp == InitMcp /\ [][NextMcp]_vars

(***************************************************************************)
(* Actions of concurrent callers: the statements of _make_request and      *)
(* _authenticate at which a thread reads or writes self.access_token.      *)
(***************************************************************************)
\* the statuses a concurrent call may be answered with
StatusesConc == {200, 401, 503}

InitConc ==
    /\ access_token = NoToken
    /\ issued = 0
    /\ call = IdleCall
    /\ log = <<>>
    /\ sleeps = <<>>
    /\ reauths = 0
    /\ get_tokens = 0
    /\ ncalls = 0
    /\ HandleIdle
    /\ McpIdle
    /\ ThreadsIdle
    /\ BootIdle

\* thread t moves to frame f, the cached token becomes tok after n issues
ThreadStep(t, f, tok, n) ==
    /\ threads' = [threads EXCEPT ![t] = f]
    /\ access_token' = tok
    /\ issued' = n
    /\ UNCHANGED <<call, obs, hvars, mvars, boot>>

\* the thread's "continue": the next iteration, or the statement after the
\* loop
ContinueThread(f) ==
    IF f.attempt < f.max_retries
    THEN [f EXCEPT !.pc = "request", !.attempt = f.attempt + 1]
    ELSE [f EXCEPT !.pc = "raised"]

\* a thread calls _make_request(method, endpoint, max_retries)
ThreadCall(t) ==
    /\ threads[t].pc \in {"idle", "returned", "raised"}
    /\ \E max_retries \in 0..MaxRetriesConc :
          ThreadStep(t, [IdleThread EXCEPT !.pc = "head",
                                           !.max_retries = max_retries],
                     access_token, issued)

\* if not self.access_token: self._authenticate()
ThreadHead(t) ==
    /\ threads[t].pc = "head"
    /\ ThreadStep(t, IF access_token = NoToken
                     THEN [threads[t] EXCEPT !.pc = "authenticate",
                                             !.return_to = "headers"]
                     ELSE [threads[t] EXCEPT !.pc = "headers"],
                  access_token, issued)

\* _authenticate: if self.access_token: return
ThreadAuthenticate(t) ==
    /\ threads[t].pc = "authenticate"
    /\ ThreadStep(t, IF access_token # NoToken
                     THEN [threads[t] EXCEPT !.pc = threads[t].return_to]
                     ELSE [threads[t] EXCEPT !.pc = "get_token"],
                  access_token, issued)

\* token = credential.get_token(...), or the failure raised as
\* "Authentication failed"
ThreadGetToken(t) ==
    /\ threads[t].pc = "get_token"
    /\ \E idp \in IdentityAfter(issued) :
          IF idp = "token"
          THEN ThreadStep(t, [threads[t] EXCEPT !.pc = "publish",
                                                !.token = issued + 1],
                          access_token, issued + 1)
          ELSE ThreadStep(t, [threads[t] EXCEPT !.pc = "raised"],
                          access_token, issued)

\* self.access_token = token.token
ThreadPublish(t) ==
    /\ threads[t].pc = "publish"
    /\ ThreadStep(t, [threads[t] EXCEPT !.pc = threads[t].return_to,
                                        !.token = NoToken],
                  threads[t].token, issued)

\* headers = {'Authorization': f'Bearer {self.access_token}', ...}, at the
\* head of the call and again after the re-authentication
ThreadHeaders(t) ==
    /\ threads[t].pc \in {"headers", "reheaders"}
    /\ ThreadStep(t, IF threads[t].pc = "headers"
                     THEN [threads[t] EXCEPT !.pc = "request",
                                             !.bearer = access_token]
                     ELSE ContinueThread([threads[t] EXCEPT
                                             !.bearer = access_token]),
                  access_token, issued)

\* requests.request(...) is answered and the status is classified
ThreadRequest(t) ==
    /\ threads[t].pc = "request"
    /\ \E status \in StatusesConc :
          ThreadStep(t,
              IF status = 200 THEN [threads[t] EXCEPT !.pc = "returned"]
              ELSE IF status = 401
              THEN IF threads[t].attempt = 0
                   THEN [threads[t] EXCEPT !.pc = "invalidate"]
                   ELSE [threads[t] EXCEPT !.pc = "raised"]
              ELSE IF threads[t].attempt < threads[t].max_retries
              THEN ContinueThread(threads[t])
              ELSE [threads[t] EXCEPT !.pc = "raised"],
              access_token, issued)

\* self.access_token = None, then self._authenticate()
ThreadInvalidate(t) ==
    /\ threads[t].pc = "invalidate"
    /\ ThreadStep(t, [threads[t] EXCEPT !.pc = "authenticate",
                                        !.return_to = "reheaders"],
                  NoToken, issued)

NextConc ==
    \E t \in Threads :
        \/ ThreadCall(t)
        \/ ThreadHead(t)
        \/ ThreadAuthenticate(t)
        \/ ThreadGetToken(t)
        \/ ThreadPublish(t)
        \/ ThreadHeaders(t)
        \/ ThreadRequest(t)
        \/ ThreadInvalidate(t)

SpecConc == InitConc /\ [][NextConc]_vars

(***************************************************************************)
(* Actions of the start of the HTTP server.                                *)
(***************************************************************************)
InitConfig ==
    /\ access_token = NoToken
    /\ issued = 0
    /\ call = IdleCall
    /\ log = <<>>
    /\ sleeps = <<>>
    /\ reauths = 0
    /\ get_tokens = 0
    /\ ncalls = 0
    /\ HandleIdle
    /\ McpIdle
    /\ ThreadsIdle
    /\ \E env \in Environments : boot = Booting(env)

\* python run.py: validate_config, then uvicorn.run("main:app", host=HOST);
\* a ValueError is printed and the script ends
RunPy ==
    /\ boot.pc = "idle"
    /\ boot' = IF validate_config(boot.env).raised
               THEN [boot EXCEPT !.entry = "run.py", !.pc = "exited",
                                 !.error = validate_config(boot.env).names]
               ELSE [boot EXCEPT !.entry = "run.py", !.pc = "startup",
                                 !.host = HOST(boot.env)]
    /\ UNCHANGED <<access_token, issued, call, obs, hvars, mvars, threads>>

\* an ASGI server is started on main:app without run.py
ServeApp ==
    /\ boot.pc = "idle"
    /\ boot' = [boot EXCEPT !.entry = "asgi", !.pc = "startup"]
    /\ UNCHANGED <<access_token, issued, call, obs, hvars, mvars, threads>>

\* lifespan(app) at startup: validate_config, then yield (the application
\* serves requests); a ValueError is raised again and the startup fails
Lifespan ==
    /\ boot.pc = "startup"
    /\ boot' = IF validate_config(boot.env).raised
               THEN [boot EXCEPT !.pc = "failed",
                                 !.error = validate_config(boot.env).names]
               ELSE [boot EXCEPT !.pc = "serving"]
    /\ UNCHANGED <<access_token, issued, call, obs, hvars, mvars, threads>>

NextConfig == RunPy \/ ServeApp \/ Lifespan

SpecConfig == InitConfig /\ [][NextConfig]_vars

(***************************************************************************)
(* Properties of the request executor.                                     *)
(***************************************************************************)
\* the call has received at least one response and all had status s
AllStatus(s) == Len(log) >= 1 /\ \A i \in 1..Len(log) : log[i].status = s

\* the first 401 of the call came with request i
First401(i) ==
    /\ i \in 1..Len(log)
    /\ log[i].status = 401
    /\ \A j \in 1..(i - 1) : log[j].status # 401

\* C1: a call with max_retries = N whose responses all have status 429
\* ends after exactly N+1 requests and exactly N sleeps, failing with the
\* rate-limit-exceeded error.
C1_RateLimitExhaustion ==
    (Done(call) /\ AllStatus(429)) =>
        /\ Len(log) = call.max_retries + 1
        /\ Len(sleeps) = call.max_retries
        /\ call.pc = "raised"
        /\ call.error = Err("Rate limit exceeded", 429)

\* C2: a call discards the cached token and re-authenticates at most once,
\* and a 401 answering the request that follows the re-authentication ends
\* the call with the authentication error and without a second one.
C2_AtMostOneReauth ==
    /\ reauths <= 1
    /\ \A i \in 1..(Len(log) - 1) :
          (log[i].reauth = 1 /\ log[i + 1].status = 401) =>
              /\ Len(log) = i + 1
              /\ call.pc = "raised"
              /\ call.error = Err("Authentication failed", 401)
              /\ reauths = 1

\* C2 witness: a second 401 right after the re-authentication ended the call
C2_Witness ==
    /\ Done(call)
    /\ Len(log) = 2
    /\ log[1].reauth = 1
    /\ log[2].status = 401
    /\ reauths = 1

\* C3: the first 401 of a call is answered by a discard of the cached token
\* and a re-authentication at whatever attempt index it arrives (the retry
\* that follows is the subject of C4).
C3_First401Reauthenticates ==
    \A i \in 1..Len(log) : First401(i) => log[i].reauth = 1

\* C4: whatever max_retries is, a call whose first response is 401 and whose
\* re-authentication obtained a token re-issues the request, and does not
\* end on the exhausted loop.
C4_ReauthRetryOutsideBudget ==
    (Done(call) /\ Len(log) >= 1 /\ log[1].status = 401
        /\ call.error # IdentityError) =>
        /\ Len(log) >= 2
        /\ call.error.msg # "Maximum retry attempts exceeded"

\* the step starts a call
CallStarts == ncalls' = ncalls + 1

\* the number of get_token calls of the step
GetTokenCalls == IF CallStarts THEN get_tokens' ELSE get_tokens' - get_tokens

\* the step calls get_token and obtains no token
AcquisitionFails == GetTokenCalls = 1 /\ issued' = issued

\* the step receives a response with status 401
Observes401 == Len(log') = Len(log) + 1 /\ log'[Len(log')].status = 401

\* C19: when token acquisition fails, the call ends with the authentication
\* error, the cached token is empty, no request is sent to the remote API
\* (none at all when the acquisition opened the call, none after the 401
\* when it was the re-authentication), and a call that starts without a
\* cached token attempts the acquisition again.
C19_FailedAcquisition ==
    [][/\ AcquisitionFails =>
            /\ call'.pc = "raised"
            /\ call'.error = IdentityError
            /\ access_token' = NoToken
            /\ CallStarts => log' = <<>>
            /\ ~CallStarts => Observes401
       /\ (Done(call) /\ ~CallStarts) => log' = log
       /\ (CallStarts /\ access_token = NoToken) => GetTokenCalls = 1]_vars

\* C19 witness: the acquisition of a second call failed, with no request
\* sent, after a first call whose re-authentication had emptied the cache
C19_Witness ==
    /\ ncalls = 2
    /\ call.pc = "raised"
    /\ call.error = IdentityError
    /\ access_token = NoToken
    /\ get_tokens = 1
    /\ log = <<>>
    /\ issued = 1

\* C20: refresh is only reactive: with a token cached, a step that receives
\* no 401 calls no get_token and leaves the cached token unchanged, and the
\* cached token changes only when a call starts without a cached token or
\* when a 401 is received.
C20_RefreshOnlyReactive ==
    [][/\ (access_token # NoToken /\ ~Observes401) =>
            /\ access_token' = access_token
            /\ issued' = issued
            /\ GetTokenCalls = 0
       /\ access_token' # access_token =>
            \/ CallStarts /\ access_token = NoToken
            \/ Observes401]_vars

\* C20 witness: a second call was retried and returned on the token the
\* first call had cached, without any get_token
C20_Witness ==
    /\ ncalls = 2
    /\ call.pc = "returned"
    /\ Len(log) >= 2
    /\ get_tokens = 0
    /\ issued = 1
    /\ access_token = 1
    /\ \A i \in 1..Len(log) : log[i].bearer = 1 /\ log[i].status # 401

\* the response of request i was followed by a retry after a sleep
SleptAfter(i) ==
    /\ log[i].status = 429 \/ log[i].status >= 500
    /\ i < Len(log) \/ call.pc = "loop"

\* the duration the backoff rule gives for the response of request i
Backoff(i) ==
    IF log[i].status = 429 /\ log[i].retry_after # "absent"
    THEN PyInt(log[i].retry_after)
    ELSE 2 ^ log[i].attempt

\* the durations the backoff rule gives for the first n responses
RECURSIVE BackoffUpTo(_)
BackoffUpTo(n) ==
    IF n = 0 THEN <<>>
    ELSE IF SleptAfter(n) THEN Append(BackoffUpTo(n - 1), Backoff(n))
    ELSE BackoffUpTo(n - 1)

\* C23: the sleeps of a call are determined by its responses: before the
\* retry of a 429 received at attempt a the call sleeps the Retry-After
\* value when the header is present and 2^a seconds when it is absent,
\* before the retry of a status >= 500 received at attempt a it sleeps 2^a
\* seconds, and it sleeps at no other moment.
C23_BackoffFromAttempt == sleeps = BackoffUpTo(Len(log))

\* C23 witness: a call slept 7 s on a Retry-After, then 2 s after a 503 at
\* attempt 1, then 4 s after a 429 without header at attempt 2
C23_Witness ==
    /\ Done(call)
    /\ Len(log) = 4
    /\ log[1].status = 429 /\ log[1].retry_after = "7"
    /\ log[2].status = 503
    /\ log[3].status = 429 /\ log[3].retry_after = "absent"
    /\ sleeps = <<7, 2, 4>>

\* the call has received at least one response and all had a status >= 500
AllServerErrors ==
    Len(log) >= 1 /\ \A i \in 1..Len(log) : log[i].status >= 500

\* C24: a call with max_retries = N whose responses all have a status
\* >= 500 issues exactly N+1 requests, sleeps 2^0, 2^1, ..., 2^(N-1) seconds
\* between them and then fails with the generic remote failure carrying
\* the status of the last response.
C24_ServerErrorExhaustion ==
    (Done(call) /\ AllServerErrors) =>
        /\ Len(log) = call.max_retries + 1
        /\ sleeps = [k \in 1..call.max_retries |-> 2 ^ (k - 1)]
        /\ call.pc = "raised"
        /\ call.error = Err("API request failed", log[Len(log)].status)

\* C24 witness: max_retries = 3, the responses 500, 503, 500, 503
C24_Witness ==
    /\ Done(call)
    /\ call.max_retries = 3
    /\ Len(log) = 4
    /\ log[1].status = 500 /\ log[2].status = 503
    /\ log[3].status = 500 /\ log[4].status = 503
    /\ sleeps = <<1, 2, 4>>
    /\ call.error.status = 503

\* a status that is neither a success nor retried: none of 200, 201, 204,
\* 401, 429 and below 500
Unclassified(status) ==
    status \notin {200, 201, 204, 401, 429} /\ status < 500

\* C25: a response whose status is none of 200, 201, 204, 401, 429 and is
\* below 500 (404, and also 202) ends the call at once with the failure
\* that carries that status: no request, no sleep and no re-authentication
\* follows it.
C25_OtherStatusFailsAtOnce ==
    \A i \in 1..Len(log) :
        Unclassified(log[i].status) =>
            /\ i = Len(log)
            /\ call.pc = "raised"
            /\ call.error = Err("API request failed", log[i].status)
            /\ log[i].reauth = 0
            /\ sleeps = BackoffUpTo(i - 1)

\* C25 witness: a 202 after one retried 503 ended the call
C25_Witness ==
    /\ call.pc = "raised"
    /\ Len(log) = 2
    /\ log[1].status = 503
    /\ log[2].status = 202
    /\ sleeps = <<1>>
    /\ call.error.status = 202
    /\ reauths = 0

\* C26: a call returns as soon as a response with status 200, 201 or 204
\* is received, at whatever attempt, and issues no request after it: the
\* result is the fixed success marker for 204 and the parsed body, or the
\* bare success marker for an empty body, for 200 and 201.
C26_SuccessReturns ==
    \A i \in 1..Len(log) :
        log[i].status \in {200, 201, 204} =>
            /\ i = Len(log)
            /\ call.pc = "returned"
            /\ log[i].status = 204 => call.result = "completed"
            /\ log[i].status # 204 => call.result \in {"success", "item", "bare"}

\* C27: for every max_retries >= 0 and every sequence of responses a call
\* ends, by returning or failing, after at most max_retries + 1 requests,
\* and the retries caused by 429 and 5xx responses never exceed
\* max_retries.
C27_BoundedTermination ==
    /\ [](/\ Len(log) <= call.max_retries + 1
          /\ Len(sleeps) <= call.max_retries
          /\ Len(sleeps) = Len(BackoffUpTo(Len(log))))
    /\ (call.pc = "loop" ~> Done(call))

\* C27 witness: a call with max_retries = 3 ended at its fourth request,
\* after a re-authentication and two sleeps
C27_Witness ==
    /\ Done(call)
    /\ call.max_retries = 3
    /\ Len(log) = 4
    /\ reauths = 1
    /\ Len(sleeps) = 2

\* C28: the statement after the retry loop, which fails with "Maximum retry
\* attempts exceeded", is never reached: every call ends inside the loop.
C28_AfterLoopUnreachable ==
    call.error.msg # "Maximum retry attempts exceeded"

(***************************************************************************)
(* Properties of the bulk iterator, the dispatcher and the transport.      *)
(***************************************************************************)
\* _handle has called a bulk operation on the identifiers of the request
BulkRunning ==
    /\ inv.handled
    /\ inv.tool \in BulkTools
    /\ hpc \in {"next", "step", "done"}
    /\ iter.items # <<>>

\* the bulk operation has returned to _handle
BulkReturned == BulkRunning /\ hpc = "done" /\ reply.success

\* C5: the results of bulk_move, bulk_delete and bulk_copy follow the input:
\* one entry per identifier handled so far, the k-th carrying the k-th
\* identifier, and as many entries as identifiers once the operation returns.
C5_BulkResultsFollowInput ==
    BulkRunning =>
        /\ iter.items = inv.data.list.items
        /\ Len(iter.results) \in {iter.i - 1, iter.i}
        /\ \A k \in 1..Len(iter.results) :
              iter.results[k].file_id = inv.data.list.items[k]
        /\ BulkReturned => Len(iter.results) = Len(inv.data.list.items)

\* C5 witness: a bulk operation returned two entries, a failed item first
C5_Witness ==
    /\ BulkReturned
    /\ Len(iter.results) = 2
    /\ iter.results[1].status = "error"
    /\ iter.results[2].status = "success"
    /\ iter.results[1].file_id # iter.results[2].file_id

\* C6: a bulk operation that was called ends by returning, never by raising,
\* after the single-item operation was attempted on every identifier in
\* order, and the k-th entry is "error" exactly when the k-th operation
\* raised and "success" exactly when it returned.
C6_BulkNeverShortCircuits ==
    (inv.handled /\ inv.tool \in BulkTools /\ hpc = "done"
        /\ inv.data.dict /\ inv.data.list.iterable
        /\ inv.data.list.items # <<>>
        /\ \A a \in Required(inv.tool) : inv.data.args[a] \notin {"None", ""}) =>
        /\ reply.success
        /\ Len(units) = Len(inv.data.list.items)
        /\ Len(iter.results) = Len(units)
        /\ \A k \in 1..Len(units) :
              /\ units[k].item = inv.data.list.items[k]
              /\ units[k].outcome \in {"returned", "raised"}
              /\ iter.results[k].status = "error" <=> units[k].outcome = "raised"
              /\ iter.results[k].status = "success" <=>
                    units[k].outcome = "returned"

\* C6 witness: the first item failed and the second was still carried out
C6_Witness ==
    /\ BulkReturned
    /\ Len(units) = 2
    /\ units[1].outcome = "raised"
    /\ units[2].outcome = "returned"
    /\ net.remote

\* C7: a name outside the tool set is rejected with no authentication and
\* no remote request: _handle returns the failure that names the unknown
\* tool, and POST /invoke/{tool} answers 400 without calling _handle.
C7_UnknownToolRejected ==
    (hpc # "idle" /\ inv.tool \in OtherTools) =>
        /\ hpc = "done"
        /\ ~net.auth /\ ~net.remote
        /\ access_token = inv.token0
        /\ call = IdleCall
        /\ inv.entry = "handle" =>
              /\ reply = Failure("Unknown tool: " \o inv.tool)
              /\ http = NoHttp
        /\ inv.entry = "invoke" =>
              /\ ~inv.handled
              /\ ~reply.sent
              /\ http.status = 400

\* C7 witness: POST /invoke/format_disk was answered
C7_Witness ==
    /\ hpc = "done"
    /\ inv.entry = "invoke"
    /\ inv.tool = "format_disk"
    /\ http.status = 400

\* a required argument of the invocation is missing or empty
MissingRequired ==
    /\ inv.handled
    /\ inv.tool \in HandledTools
    /\ inv.data.dict
    /\ \/ \E a \in Required(inv.tool) : inv.data.args[a] \in {"None", ""}
       \/ /\ ListArg(inv.tool) # "none"
          /\ inv.data.list.iterable
          /\ inv.data.list.items = <<>>

\* C8: _handle called with a required argument missing or empty returns
\* {success: false, error} with no authentication and no remote request;
\* the cached token is unchanged.
C8_ValidationBeforeNetwork ==
    MissingRequired =>
        /\ hpc = "done"
        /\ reply.sent /\ ~reply.raised /\ ~reply.success
        /\ reply.keys = {"success", "error"}
        /\ reply.error = ValidationMessage(inv.tool)
        /\ ~net.auth /\ ~net.remote
        /\ access_token = inv.token0
        /\ call = IdleCall
        /\ units = <<>>

\* C8 witness: copy_file with an empty new_name was refused while a token
\* was cached
C8_Witness ==
    /\ MissingRequired
    /\ inv.tool = "copy_file"
    /\ inv.data.args["new_name"] = ""
    /\ inv.data.args["file_id"] = "x"
    /\ reply.sent
    /\ access_token # NoToken

\* C9: whatever the tool, the arguments, the remote API and the identity
\* endpoint do, what _handle gives back is a result, never an exception:
\* success with data, or failure with an error string.
C9_HandleNeverRaises ==
    /\ reply.sent =>
          /\ ~reply.raised
          /\ \/ reply.success /\ reply.keys = {"success", "data"}
             \/ ~reply.success /\ reply.keys = {"success", "error"}
                   /\ reply.error # ""
    /\ (inv.handled /\ hpc = "done") => reply.sent

\* C9 witness: a failure of the identity endpoint came back as a result
C9_Witness ==
    /\ reply.sent
    /\ ~reply.success
    /\ reply.error = "Authentication failed"
    /\ net.auth
    /\ ~net.remote

\* C10 as claimed: a known tool is always answered 200, and 400 for an
\* unknown tool is the only other answer.
C10_Always200 ==
    http.status # 0 =>
        /\ inv.tool \in ALLOWED_TOOLS => http.status = 200
        /\ http.status # 200 => (http.status = 400 /\ inv.tool \notin ALLOWED_TOOLS)

\* C10 amended: a known tool with a JSON body is answered 200 with
\* {success, data|error}; a known tool with a body that is not JSON is
\* answered 500 with {success: false, error}; an unknown tool is answered
\* 400.
C10_InvokeStatus ==
    http.status # 0 =>
        /\ inv.entry = "invoke"
        /\ inv.tool \in OtherTools <=> http.status = 400
        /\ (inv.tool \notin OtherTools /\ inv.data.json) =>
              /\ http.status = 200
              /\ \/ http.success /\ http.keys = {"success", "data"}
                 \/ ~http.success /\ http.keys = {"success", "error"}
        /\ (inv.tool \notin OtherTools /\ ~inv.data.json) =>
              /\ http.status = 500
              /\ ~http.success
              /\ http.keys = {"success", "error"}
              /\ ~inv.handled

\* C10 witness: a failure of the remote API was answered 200, in-band
C10_Witness ==
    /\ http.status = 200
    /\ ~http.success
    /\ net.remote
    /\ reply.error = "API request failed"

(***************************************************************************)
(* Properties of the operation translator.                                 *)
(***************************************************************************)
\* the positions of wire that hold a request of step s
WireOf(s) == { k \in 1..Len(wire) : wire[k].step = s }

\* move_file is the operation in progress, or the one that just ended
MoveCalled ==
    /\ inv.handled
    /\ inv.tool \in {"move_file", "bulk_move"}
    /\ units # <<>>

\* the new_parent_path argument of that move_file
MovePath ==
    IF inv.tool = "move_file" THEN inv.data.args["new_parent_path"]
    ELSE inv.data.args["target_path"]

\* C11: move_file to "/" issues no path lookup and its PATCH names the
\* root sentinel as parent; move_file to another path issues one lookup, at
\* most one PATCH, the lookup is answered before the PATCH is issued, and
\* the PATCH names the id the lookup returned.
C11_MoveResolvesTarget ==
    MoveCalled =>
        /\ Cardinality(WireOf("patch")) <= 1
        /\ \A k \in WireOf("patch") :
              wire[k].item = units[Len(units)].item
                 \/ (inv.tool = "move_file"
                        /\ wire[k].item = inv.data.args["file_id"])
        /\ MovePath = "/" =>
              /\ WireOf("lookup") = {}
              /\ \A k \in WireOf("patch") : wire[k].parent = RootFolderId
        /\ MovePath # "/" =>
              /\ Cardinality(WireOf("lookup")) <= 1
              /\ \A j \in WireOf("lookup") : wire[j].item = MovePath
              /\ \A k \in WireOf("patch") :
                    \E j \in WireOf("lookup") :
                       /\ j < k
                       /\ wire[j].got \in FolderIds
                       /\ wire[k].parent = wire[j].got

\* C11 witness: a move to /Docs was carried out with the id f2 that the
\* lookup returned
C11_Witness ==
    /\ MoveCalled
    /\ inv.tool = "move_file"
    /\ MovePath = "/Docs"
    /\ hpc = "done"
    /\ reply.success
    /\ \E j \in WireOf("lookup"), k \in WireOf("patch") :
          wire[j].got = "f2" /\ wire[k].parent = "f2"

\* a move to the root was carried out
C11_WitnessRoot ==
    /\ MoveCalled
    /\ MovePath = "/"
    /\ hpc = "done"
    /\ reply.success
    /\ \E k \in WireOf("patch") : wire[k].parent = RootFolderId

\* C12: every create_folder request carries the conflict behaviour
\* "rename"; so whatever folders exist under the parent, a remote that
\* honours it keeps each of them with its content and creates one folder
\* whose name no existing sibling has.
C12_CreateFolderNeverOverwrites ==
    \A k \in WireOf("create") :
        /\ wire[k].conflict = "rename"
        /\ \A S \in SiblingSets(wire[k].item) :
              LET r == RemoteCreate(S, wire[k].item, wire[k].conflict) IN
              /\ S \subseteq r.children
              /\ Cardinality(r.created) = 1
              /\ r.created \subseteq r.children
              /\ \A c \in r.created : \A f \in S : c.name # f.name

\* C12 witness: create_folder("x") was carried out, and with a folder x
\* already there the remote names the new one differently
C12_Witness ==
    /\ inv.tool = "create_folder"
    /\ hpc = "done"
    /\ reply.success
    /\ \E k \in WireOf("create") :
          /\ wire[k].item = "x"
          /\ \E S \in SiblingSets("x") :
                /\ \E f \in S : f.name = "x"
                /\ RemoteCreate(S, "x", wire[k].conflict).created
                      = {[name |-> "x 1", content |-> "new"]}

\* a rule of organize_files that searches has been started
RuleCalled ==
    /\ inv.handled
    /\ inv.tool = "organize_files"
    /\ units # <<>>
    /\ wire # <<>>

\* that rule has ended
RuleEnded == RuleCalled /\ units[Len(units)].outcome \in {"returned", "raised"}

\* the requests that move or delete an item, in the order issued
RECURSIVE Issued(_)
Issued(w) ==
    IF w = <<>> THEN <<>>
    ELSE IF Head(w).step \in {"patch", "delete"}
    THEN <<Head(w).item>> \o Issued(Tail(w))
    ELSE Issued(Tail(w))

\* the ids of the search results that are files, in result order
RECURSIVE FilesOf(_)
FilesOf(m) ==
    IF m = <<>> THEN <<>>
    ELSE IF Head(m).kind = "file" THEN <<Head(m).id>> \o FilesOf(Tail(m))
    ELSE FilesOf(Tail(m))

\* C13 as claimed: when a move or delete rule has ended, the items a move
\* or delete was issued on are exactly the search results that are files.
C13_ExactlyTheFiles ==
    RuleEnded => Issued(wire) = FilesOf(iter.files)

\* C13 amended: the items a move or delete is issued on are search results
\* that are files, each once and in result order; they are all of them when
\* the rule ends without a failure; a folder is never moved or deleted.
C13_OnlyFilesInOrder ==
    RuleCalled =>
        /\ Len(Issued(wire)) <= Len(FilesOf(iter.files))
        /\ Issued(wire) = SubSeq(FilesOf(iter.files), 1, Len(Issued(wire)))
        /\ \A k \in 1..Len(iter.files) :
              iter.files[k].kind = "folder" =>
                 \A j \in 1..Len(wire) :
                    wire[j].step \in {"patch", "delete"} =>
                       wire[j].item # iter.files[k].id
        /\ (RuleEnded /\ units[Len(units)].outcome = "returned") =>
              Issued(wire) = FilesOf(iter.files)

\* C13 witness: a move rule whose search returned a folder and then a file
\* has ended, and the file alone was moved
C13_Witness ==
    /\ RuleEnded
    /\ units[Len(units)].outcome = "returned"
    /\ units[Len(units)].item.action = "move"
    /\ Len(iter.files) = 2
    /\ iter.files[1].kind = "folder"
    /\ iter.files[2].kind = "file"
    /\ Issued(wire) = <<"m2">>

\* organize_files has been called on a list of rules
OrganizeCalled ==
    /\ inv.handled
    /\ inv.tool = "organize_files"
    /\ inv.data.dict
    /\ inv.data.list.iterable
    /\ inv.data.list.items # <<>>

\* the error records of rule k
RuleErrors(k) ==
    { j \in 1..Len(iter.results) :
         /\ iter.results[j].status = "error"
         /\ iter.results[j].rule = k }

\* C14: organize_files takes the rules in input order and ends only after
\* the last one, whatever happened to the earlier ones; a rule that fails
\* leaves exactly one error record and a rule that does not leaves none.
C14_EveryRuleProcessed ==
    OrganizeCalled =>
        /\ Len(units) <= Len(inv.data.list.items)
        /\ \A k \in 1..Len(units) :
              /\ units[k].item = inv.data.list.items[k]
              /\ units[k].outcome = "raised" => Cardinality(RuleErrors(k)) = 1
              /\ units[k].outcome # "raised" => RuleErrors(k) = {}
              /\ k < Len(units) => units[k].outcome \in {"returned", "raised"}
        /\ hpc = "done" =>
              /\ reply.success
              /\ Len(units) = Len(inv.data.list.items)
              /\ \A k \in 1..Len(units) :
                    units[k].outcome \in {"returned", "raised"}

\* C14 witness: the first rule failed, the second was executed and moved a
\* file
C14_Witness ==
    /\ OrganizeCalled
    /\ hpc = "done"
    /\ Len(units) = 2
    /\ units[1].outcome = "raised"
    /\ units[2].outcome = "returned"
    /\ Cardinality(RuleErrors(1)) = 1
    /\ \E j \in 1..Len(iter.results) :
          /\ iter.results[j].status = "success"
          /\ iter.results[j].action = "moved"

(***************************************************************************)
(* Properties of the JSON-RPC server.                                      *)
(***************************************************************************)
\* the request was passed to the application and answered
Answered == mpc = "done" /\ mresp.kind # "unauthorized"

\* the answer is a JSON-RPC error object with this code
ErrorCode(code) == mresp.kind = "error" /\ mresp.code = code

\* the request is a tools/call of an object body with JSON-RPC version 2.0
ToolsCall ==
    /\ mreq.path = "/mcp"
    /\ mreq.body.dict
    /\ mreq.body.jsonrpc = "2.0"
    /\ mreq.body.method = "tools/call"

\* C15: poll_copy_status reports exactly the state of the remote monitor:
\* whenever a tools/call of poll_copy_status is answered, the status it
\* reports is the state the monitor has at that moment (inProgress, failed
\* or completed).
C15_PollReportsMonitor ==
    [][(mpc = "idle" /\ mpc' = "done" /\ ToolsCall'
        /\ mreq'.body.params.name = "poll_copy_status"
        /\ mreq'.body.params.arguments = "object")
       => mresp'.output = monitor]_vars

\* C16: POST /mcp maps each malformed request to its JSON-RPC error code:
\* -32700 for an unparsable body, -32600 for a jsonrpc field other than
\* "2.0", -32601 for an unknown method or an unknown tool, -32602 for a
\* tools/call without a tool name, and no tool is executed in these cases.
C16_MalformedMapped ==
    (Answered /\ mreq.path = "/mcp") =>
        LET b == mreq.body
            p == b.params
        IN  /\ ~b.json => ErrorCode(ParseError)
            /\ (b.json /\ (~b.dict \/ b.jsonrpc # "2.0"))
                  => ErrorCode(InvalidRequest)
            /\ (b.dict /\ b.jsonrpc = "2.0" /\ b.method \notin McpMethods)
                  => ErrorCode(NotFound)
            /\ (ToolsCall /\ p.kind = "object" /\ ~NoName(p.name)
                /\ p.name \notin McpTools)
                  => ErrorCode(NotFound)
            /\ (ToolsCall /\ (p.kind # "object" \/ NoName(p.name)))
                  => ErrorCode(InvalidParams)
            /\ (~ToolsCall \/ p.kind # "object" \/ p.name \notin McpTools)
                  => mresp.called = ""

\* C17: when a known tool invoked through tools/call fails (the organizer's
\* operation raises), the reply is a JSON-RPC error with code -32000 and
\* never a result object.
C17_FailureIsExecutionError ==
    (Answered /\ mresp.called \in McpTools /\ mresp.output = "error")
        => ErrorCode(ExecutionError)

\* the paths the gateway is documented to leave open: health check, root
\* and documentation
DocumentedPublicPaths == {"/", "/health", "/docs", "/openapi.json"}

\* C18: the gateway passes a request to the application only if its path is
\* public (health check, root, documentation) or it carries the right key
\* or, with OAuth enabled, a valid bearer JWT; every other request,
\* a request to /mcp without credentials included, is answered 401.
C18_OnlyAuthenticatedPass ==
    Answered =>
        \/ mreq.path \in DocumentedPublicPaths
        \/ ProvidedKey(mreq) = ApiKey
        \/ JwtAccepted(cfg, mreq)

(***************************************************************************)
(* Properties of concurrent callers.                                       *)
(***************************************************************************)
\* thread t has discarded the cached token on a 401 and has not yet
\* obtained the new one
Refreshing(t) ==
    /\ threads[t].return_to = "reheaders"
    /\ threads[t].pc \in {"authenticate", "get_token"}

\* C21: with calls running concurrently on the shared organizer, the
\* cached token is never empty between a 401-triggered invalidation and
\* the publication of the new token, and no request is sent with an empty
\* bearer token.
C21_TokenNeverEmpty ==
    /\ \A t \in Threads : Refreshing(t) => access_token # NoToken
    /\ \A t \in Threads :
          threads[t].pc = "request" => threads[t].bearer # NoToken

(***************************************************************************)
(* Properties of the operations that send their own requests.              *)
(***************************************************************************)
\* C22: every outbound request made for a logical operation, those of
\* upload_file, download_file and get_file_content included, is issued
\* through the request executor _make_request, whose retry policy handles
\* a 429, 401 or 5xx answer.
C22_AllThroughExecutor ==
    \A k \in 1..Len(wire) : wire[k].step \in CallSteps

(***************************************************************************)
(* Properties of move_file and of the rules of organize_files.             *)
(***************************************************************************)
\* the lookup or the PATCH of the move_file in progress has failed
MoveRequestFailed ==
    /\ MoveCalled
    /\ hpc = "step"
    /\ plan # <<>>
    /\ Head(plan).step \in {"lookup", "patch"}
    /\ call.pc = "raised"

\* C29: the failures of the two remote calls of move_file are never hidden:
\* when the path lookup fails, move_file fails and no PATCH is issued; when
\* the PATCH fails after a lookup that succeeded, move_file fails with that
\* error; and move_file reports success only after a PATCH that succeeded.
C29_MoveFailuresSurface ==
    /\ [][MoveRequestFailed =>
            /\ units'[Len(units')].outcome = "raised"
            /\ plan' = <<>>
            /\ wire' = wire
            /\ inv.tool = "move_file" =>
                  /\ hpc' = "done"
                  /\ reply' = Failure(call.error.msg)
            /\ inv.tool = "bulk_move" =>
                  /\ Len(iter'.results) = Len(iter.results) + 1
                  /\ iter'.results[Len(iter'.results)].status = "error"]_vars
    /\ []((MoveCalled /\ inv.tool = "move_file" /\ hpc = "done"
              /\ reply.success) =>
            /\ units[1].outcome = "returned"
            /\ wire # <<>>
            /\ wire[Len(wire)].step = "patch")

\* C29 witness: the lookup of /Docs returned an id and the PATCH that
\* followed failed; move_file answered with the failure
C29_Witness ==
    /\ MoveCalled
    /\ inv.tool = "move_file"
    /\ hpc = "done"
    /\ ~reply.success
    /\ reply.error = "API request failed"
    /\ units[1].outcome = "raised"
    /\ wire # <<>>
    /\ wire[Len(wire)].step = "patch"
    /\ \E j \in WireOf("lookup") : wire[j].got \in FolderIds

\* a move rule has ended without a failure after moving the files of its
\* search result
MoveRuleDone ==
    /\ RuleEnded
    /\ units[Len(units)].outcome = "returned"
    /\ units[Len(units)].item.action = "move"
    /\ Len(FilesOf(iter.files)) >= 1

\* C30: a move rule whose search returns k >= 1 files runs search, then
\* ensures the target folder, then the k moves: exactly one create_folder
\* request is issued for the rule, after the search and before the first
\* move.
C30_OneCreatePerRule ==
    MoveRuleDone =>
        /\ Cardinality(WireOf("create")) = 1
        /\ Cardinality(WireOf("patch")) = Len(FilesOf(iter.files))
        /\ \A c \in WireOf("create") :
              /\ \A j \in WireOf("search") : j < c
              /\ \A k \in WireOf("patch") : c < k

\* the matched files of the rule in progress whose handling has not ended
PendingFiles ==
    { plan[k].item : k \in { j \in 1..Len(plan) :
                                plan[j].step \in {"moved", "deleted"} } }

\* a request made while handling a matched file of a rule has failed
FileRequestFailed ==
    /\ RuleCalled
    /\ hpc = "step"
    /\ call.pc = "raised"
    /\ PendingFiles # {}

\* C31 as stated: a failure while handling one matched file of a rule does
\* not abort its siblings: the remaining matched files of the same rule
\* are still moved or deleted.
C31_SiblingsContinue ==
    [][(FileRequestFailed /\ Cardinality(PendingFiles) >= 2)
          => plan' # <<>>]_vars

\* C31 amended: a failure while handling one matched file of a rule ends
\* that rule: one error record for the rule is added after the records
\* written so far, which are kept, no further request of the rule is
\* issued, and organize_files goes on with the next rule.
C31_FailureEndsRule ==
    [][FileRequestFailed =>
          /\ units'[Len(units')].outcome = "raised"
          /\ plan' = <<>>
          /\ wire' = wire
          /\ hpc' = "next"
          /\ iter'.i = iter.i
          /\ iter'.results =
                Append(iter.results, [status |-> "error", rule |-> iter.i])]_vars

\* C31 witness: the first of two matched files was moved, the move of the
\* second failed, and the rule ended with a success record and an error
C31_Witness ==
    /\ RuleEnded
    /\ hpc = "done"
    /\ units[Len(units)].outcome = "raised"
    /\ Len(FilesOf(iter.files)) = 2
    /\ Issued(wire) = FilesOf(iter.files)
    /\ Len(iter.results) = 2
    /\ iter.results[1].status = "success"
    /\ iter.results[2].status = "error"

(***************************************************************************)
(* Properties of the tools of the JSON-RPC server.                         *)
(***************************************************************************)
\* the request is a tools/call that names a known tool and omits an
\* argument its input schema requires
OmitsRequired ==
    /\ ToolsCall
    /\ mreq.body.params.kind = "object"
    /\ mreq.body.params.name \in ListedTools
    /\ RequiredArguments(mreq.body.params.name) # {}
    /\ mreq.body.params.arguments \in {"absent", "incomplete"}

\* C32: a tools/call that names a known tool but omits an argument the
\* tool's input schema lists as required is answered with the JSON-RPC
\* error -32602, and the tool is not executed.
C32_MissingArgumentRejected ==
    (Answered /\ OmitsRequired) =>
        /\ ErrorCode(InvalidParams)
        /\ mresp.called = ""

(***************************************************************************)
(* Properties of the race to authenticate.                                 *)
(***************************************************************************)
\* thread t found no cached token at the head of its call and has been
\* through _authenticate
AuthenticatedAtHead(t) ==
    /\ threads[t].return_to = "headers"
    /\ threads[t].pc \in {"headers", "request"}

\* some thread is inside _authenticate or about to empty the cache
Authenticating ==
    \E t \in Threads :
        threads[t].pc \in {"authenticate", "get_token", "publish",
                           "invalidate"}

\* C33: when several callers find no cached token and each authenticates,
\* the race is harmless: once all authentications are complete the cache
\* holds one of the tokens that were acquired, and the request of each of
\* these callers carries a token issued by the identity endpoint.
C33_RaceHarmless ==
    /\ ((\E t \in Threads : AuthenticatedAtHead(t)) /\ ~Authenticating)
          => access_token \in 1..issued
    /\ \A t \in Threads :
          (AuthenticatedAtHead(t) /\ threads[t].pc = "request")
             => threads[t].bearer \in 1..issued

(***************************************************************************)
(* Properties of the bearer of one call's requests.                        *)
(***************************************************************************)
\* the i-th request of the call was answered 401 and the token was
\* discarded and acquired again
Reauthenticated(i) == log[i].status = 401 /\ log[i].reauth = 1

\* C34: within one call that runs alone, every request sent and the request
\* about to be sent carry a token issued by the identity endpoint, and the
\* request that follows a re-authentication after a 401 carries the token
\* just acquired, which is not the token the 401 answered.
C34_BearerFresh ==
    /\ \A i \in 1..Len(log) : log[i].bearer \in 1..issued
    /\ call.pc = "loop" => call.bearer \in 1..issued
    /\ \A i \in 1..Len(log) :
          Reauthenticated(i) =>
             /\ i < Len(log) =>
                   log[i + 1].bearer = issued /\ log[i + 1].bearer # log[i].bearer
             /\ (i = Len(log) /\ call.pc = "loop") =>
                   call.bearer = issued /\ call.bearer # log[i].bearer

C34_Witness ==
    /\ Len(log) >= 2
    /\ Reauthenticated(1)
    /\ log[1].bearer = 1
    /\ log[2].bearer = 2
    /\ get_tokens = 1

(***************************************************************************)
(* Properties of the fall-back from OAuth to the API key.                  *)
(***************************************************************************)
\* the request presented a bearer token whose validation was attempted and
\* failed
BearerRejected ==
    /\ cfg.oauth
    /\ cfg.jwks
    /\ mreq.bearer = "invalid"

\* the request carries the API key: in a key header, or in the query when
\* no key header has a value
CarriesApiKey ==
    \/ mreq.header_key = ApiKey
    \/ mreq.header_key \in {"absent", ""} /\ mreq.query_key = ApiKey

\* C35: a request to a path that is not public, whose bearer token failed
\* validation, is passed on to the application exactly when it carries the
\* API key: the invalid token alone does not admit it, and the API key is
\* not refused on account of the token.
C35_FallsBackToApiKey ==
    (mpc = "done" /\ BearerRejected /\ mreq.path \notin PublicPaths)
       => (mresp.kind # "unauthorized" <=> CarriesApiKey)

C35_Witness ==
    /\ mpc = "done"
    /\ BearerRejected
    /\ mreq.path = "/tools"
    /\ mreq.header_key = "absent"
    /\ mreq.query_key = ApiKey
    /\ mresp.kind = "page"

(***************************************************************************)
(* Properties of the dispatcher against the enumerated tool set.           *)
(***************************************************************************)
\* _handle answered with the failure of its final else branch
UnknownToolReturned ==
    /\ inv.handled
    /\ reply.sent
    /\ reply.error = "Unknown tool: " \o inv.tool

\* C36: _handle has a branch for every name of ALLOWED_TOOLS, so the
\* "Unknown tool" failure is returned only for a name outside ALLOWED_TOOLS
\* and only to a direct caller of _handle: POST /invoke/{tool} never
\* answers with it.
C36_DispatcherAgrees ==
    /\ \A tool \in ALLOWED_TOOLS : tool \in HandledTools
    /\ UnknownToolReturned =>
          /\ inv.tool \notin ALLOWED_TOOLS
          /\ inv.entry = "handle"
          /\ http = NoHttp

\* C36 witness: a name of ALLOWED_TOOLS passed the check of POST
\* /invoke/{tool} and the branch of _handle for it answered
C36_Witness ==
    /\ hpc = "done"
    /\ inv.entry = "invoke"
    /\ inv.tool = "bulk_copy"
    /\ inv.handled
    /\ reply.sent
    /\ ~UnknownToolReturned
    /\ http.status = 200

(***************************************************************************)
(* Properties of the advertised tools against the dispatched ones.         *)
(***************************************************************************)
\* a tools/call that names a tool and whose arguments, if any, are an object
NamedToolsCall ==
    /\ mpc = "done"
    /\ ToolsCall
    /\ mreq.body.params.kind = "object"
    /\ ~NoName(mreq.body.params.name)
    /\ mreq.body.params.arguments # "other"

\* C37: tools/call dispatches exactly the names tools/list advertises: a
\* call of an advertised name reaches the tool of that name and is answered
\* with a result, and a call of any other name reaches no tool and is
\* answered "method not found".
C37_ListedAreDispatched ==
    NamedToolsCall =>
        /\ mreq.body.params.name \in ListedTools =>
              /\ mresp.called = mreq.body.params.name
              /\ mresp.kind = "result"
        /\ mreq.body.params.name \notin ListedTools =>
              /\ mresp.called = ""
              /\ ErrorCode(NotFound)

\* C37 witness: an advertised tool was called
C37_Witness ==
    /\ NamedToolsCall
    /\ mreq.body.params.name = "copy_large_file"
    /\ mreq.body.params.arguments = "object"
    /\ mresp.called = "copy_large_file"
    /\ mresp.status = 200

(***************************************************************************)
(* Properties of the id of JSON-RPC replies.                               *)
(***************************************************************************)
\* POST /mcp answered a body that parsed as a JSON object with a JSON-RPC
\* result or error
JsonRpcReply ==
    /\ mpc = "done"
    /\ mreq.path = "/mcp"
    /\ mreq.body.dict
    /\ mresp.kind \in {"result", "error"}

\* C38: every JSON-RPC reply to a parsed request, result or error, carries
\* the id of the request, and a request whose jsonrpc member is not "2.0"
\* is answered "invalid request" without reaching the methods: it lists no
\* tools and calls none.
C38_ReplyCarriesId ==
    JsonRpcReply =>
        /\ mresp.id = mreq.body.id
        /\ mreq.body.jsonrpc # "2.0" =>
              /\ ErrorCode(InvalidRequest)
              /\ mresp.output = ""
              /\ mresp.called = ""

\* C38 witness: a tools/call of another JSON-RPC version was answered with
\* an error under the id of the request
C38_Witness ==
    /\ JsonRpcReply
    /\ mreq.body.id = "7"
    /\ mresp.id = "7"
    /\ mreq.body.jsonrpc = "1.0"
    /\ mreq.body.method = "tools/call"
    /\ mreq.body.params.name = "move_large_file"
    /\ mresp.kind = "error"

(***************************************************************************)
(* Properties of the validation of the configuration.                      *)
(***************************************************************************)
\* CLIENT_ID, CLIENT_SECRET and TENANT_ID all have a value
AllSet ==
    /\ boot.env.CLIENT_ID = "value"
    /\ boot.env.CLIENT_SECRET = "value"
    /\ boot.env.TENANT_ID = "value"

\* the required variables that have no value
MissingVariables ==
    {v \in {"CLIENT_ID", "CLIENT_SECRET", "TENANT_ID"} : boot.env[v] # "value"}

\* validate_config was called and raised / was called and returned
ValidationFailed == boot.pc \in {"exited", "failed"}

ValidationPassed ==
    \/ boot.pc = "serving"
    \/ boot.pc = "startup" /\ boot.entry = "run.py"

\* C39: validate_config returns exactly when CLIENT_ID, CLIENT_SECRET and
\* TENANT_ID are all set; otherwise it raises an error that names each
\* missing variable once and no other; and after it raised, run.py has not
\* started the server and the application is not serving.
C39_ValidateConfig ==
    /\ ValidationPassed => AllSet
    /\ ValidationFailed =>
          /\ ~AllSet
          /\ {boot.error[i] : i \in 1..Len(boot.error)} = MissingVariables
          /\ Len(boot.error) = Cardinality(MissingVariables)
          /\ boot.host = ""
    /\ boot.pc = "exited" => boot.entry = "run.py"

\* C39 witness: run.py ended on an environment with an empty CLIENT_SECRET
\* and no TENANT_ID
C39_Witness ==
    /\ boot.pc = "exited"
    /\ boot.env.CLIENT_ID = "value"
    /\ boot.env.CLIENT_SECRET = ""
    /\ boot.env.TENANT_ID = "None"
    /\ boot.error = <<"CLIENT_SECRET", "TENANT_ID">>

====
